---- MODULE Spec2Model ----
(***************************************************************************)
(* A model of corsix/fast-crc32's code generator (src/generate.c).         *)
(*                                                                         *)
(* Machine words are modelled as sets of bit positions: bit i of a C       *)
(* unsigned value is set iff i is in the set.  A uint32_t is a subset of   *)
(* 0..31 and a uint64_t a subset of 0..63, so a shift that would leave the *)
(* word is cut at the word's width exactly as the C type does.             *)
(***************************************************************************)
EXTENDS Integers, Sequences, FiniteSets, TLC

VARIABLES
  g_poly,     \* generate.c:323  the reversed polynomial in use
  n,          \* the exponent handed to xnmodp / xndivp
  ref,        \* x^n mod P obtained by n single-bit reductions of x^0
  word,       \* generate.c:362  the word handed to rev32 (its parameter poly)
  call,       \* the last function applied, with its argument and result
  argv,       \* generate.c:1364  the command line, argv[0] first
  given,      \* what the command line asks for
  g_isa,      \* generate.c:322
  g_algo,     \* generate.c:324  the list of phases, <<>> for NULL
  g_out_path, \* generate.c:325  <<>> for NULL, else <<path>>
  status,     \* where the program is, and the message of its FATAL
  sbufs,      \* every sbuf_t allocated; g_out is 1 (generate.c:172)
  tree,       \* what was put into every buffer
  file,       \* the bytes written to the output file
  emitted,    \* the statements of crc32_impl written by emit_main_fn
  impl,       \* the function the C compiler makes of them
  run,        \* the last call of the function, with what it returned
  helpers     \* generate.c:568-851  the helpers asked for, and what was put for them

(***************************************************************************)
(* Bounds of the model.                                                    *)
(***************************************************************************)
MaxN == 4096
MaxIter == 1000000
MaxOps == 5
MaxBufs == 3
MaxTextLen == 6
MaxAlgoLen == 3

(***************************************************************************)
(* Words.                                                                  *)
(***************************************************************************)
\* The character that ends a C string.
NUL == ""

Word32 == 0..31
Word64 == 0..63

Pow2(k) == IF k = 0 THEN 1 ELSE 2 ^ k

\* The bits of a hexadecimal digit 0..15.
Nibble(d) == {j \in 0..3 : (d \div Pow2(j)) % 2 = 1}

\* The word written as hexadecimal digits, most significant digit first.
Hex(ds) == UNION {{4 * (Len(ds) - k) + j : j \in Nibble(ds[k])} : k \in 1..Len(ds)}

\* Each result is built element by element, so that a long chain of word
\* operations is a chain of explicit sets.
Xor(a, b) == {i : i \in (a \ b) \cup (b \ a)}
And(a, b) == {i : i \in a \cap b}
Or(a, b) == {i : i \in a \cup b}
Shl(w, k, width) == {i + k : i \in {j \in w : j + k < width}}
Shr(w, k) == {i - k : i \in {j \in w : j >= k}}
Not(w, width) == {i : i \in (0..(width - 1)) \ w}

\* generate.c:309-310 and 379-381: the reversed polynomials known by name.
REV_POLY_CRC32 == Hex(<<14, 13, 11, 8, 8, 3, 2, 0>>)
REV_POLY_CRC32C == Hex(<<8, 2, 15, 6, 3, 11, 7, 8>>)
\* A slip in the constant of crc32k: one digit is another.
REV_POLY_CRC32K_slip == Hex(<<14, 11, 3, 1, 13, 8, 2, 15>>)
REV_POLY_CRC32K == Hex(<<14, 11, 3, 1, 13, 8, 2, 14>>)
REV_POLY_CRC32K2 == Hex(<<9, 9, 2, 12, 1, 10, 4, 12>>)
REV_POLY_CRC32Q == Hex(<<13, 5, 8, 2, 8, 2, 8, 1>>)
(***************************************************************************)
(* Loops of the C code.  A loop is its condition C and its body F over the *)
(* record of the variables it changes; the runs are split in halves so     *)
(* that a long loop is evaluated at a small depth.  A loop of the model    *)
(* makes fewer than 2 * MaxIter passes.                                    *)
(***************************************************************************)
RECURSIVE IterN(_, _, _)
IterN(F(_), x, k) ==
  IF k = 0 THEN x
  ELSE IF k = 1 THEN F(x)
  ELSE LET m == IterN(F, x, k \div 2)
       IN IF m = m THEN IterN(F, m, k - (k \div 2)) ELSE x

Iter(F(_), x, k) == IterN(F, x, k)

RECURSIVE WhileN(_, _, _, _)
WhileN(C(_), F(_), x, k) ==
  IF k = 0 \/ ~C(x) THEN x
  ELSE IF k = 1 THEN F(x)
  ELSE LET m == WhileN(C, F, x, k \div 2)
       IN IF C(m) THEN WhileN(C, F, m, k - (k \div 2)) ELSE m

\* Runs of 1, 2, 4, ... passes, until the condition fails.
RECURSIVE WhileUp(_, _, _, _)
WhileUp(C(_), F(_), x, k) ==
  LET m == WhileN(C, F, x, k)
  IN IF k < MaxIter /\ C(m) THEN WhileUp(C, F, m, 2 * k) ELSE m

While(C(_), F(_), x) == WhileUp(C, F, x, 1)
DoWhile(C(_), F(_), x) == While(C, F, F(x))

(***************************************************************************)
(* Polynomial arithmetic: generate.c:362-374 and 527-565.                  *)
(***************************************************************************)
MaxBit(w) == CHOOSE i \in w : \A j \in w : j <= i

\* a < b for unsigned words.
WordLess(a, b) == Xor(a, b) # {} /\ MaxBit(Xor(a, b)) \in b

\* A slip in rev32_swap: the test that both bits are set is left out.
rev32_swap_slip(poly, mask) ==
  IF And(poly, mask) # {} THEN Xor(poly, mask) ELSE poly

\* generate.c:366-369: exchange the two bits of mask when they differ.
rev32_swap(poly, mask) ==
  LET bits == And(poly, mask)
  IN IF bits # {} /\ bits # mask THEN Xor(poly, mask) ELSE poly

\* generate.c:362-374: the do-while over the bit pairs (lo, hi).
rev32(poly) ==
  DoWhile(LAMBDA s : WordLess(s.lo, s.hi),
          LAMBDA s :
            [poly |-> rev32_swap(s.poly, Or(s.lo, s.hi)),   \* mask = lo + hi
             lo |-> Shl(s.lo, 1, 32),
             hi |-> Shr(s.hi, 1)],
          [poly |-> poly, lo |-> {0}, hi |-> {31}]).poly

\* generate.c:532, 561, 613: r = (r >> 1) ^ ((r & 1) * g_poly)
Reduce1(r, P) == Xor(Shr(r, 1), IF 0 \in r THEN P ELSE {})

ReduceN(r, P, k) == Iter(LAMBDA x : Reduce1(x, P), r, k)

\* A slip in xndivp_first: the loop starts one position late.
xndivp_first_slip(k) == 96 - k

\* generate.c:530: n = 95 - n (the argument is at most 95, so no wrap)
xndivp_first(k) == 95 - k

\* generate.c:527-535
xndivp(k, P) ==
  While(LAMBDA s : s.n < 64,
        LAMBDA s : [n |-> s.n + 1,
                    q |-> Xor(s.q, IF 0 \in s.r THEN {s.n} ELSE {}),
                    r |-> Reduce1(s.r, P)],
        [n |-> xndivp_first(k), q |-> {}, r |-> {0}]).q

\* generate.c:551-555: square r, spreading its 32 bits over 64.
Spread(r) ==
  LET r1 == And(Xor(r, Shl(r, 16, 64)), Hex(<<0,0,0,0,15,15,15,15,0,0,0,0,15,15,15,15>>))
      r2 == And(Xor(r1, Shl(r1, 8, 64)), Hex(<<0,0,15,15,0,0,15,15,0,0,15,15,0,0,15,15>>))
      r3 == And(Xor(r2, Shl(r2, 4, 64)), Hex(<<0,15,0,15,0,15,0,15,0,15,0,15,0,15,0,15>>))
      r4 == And(Xor(r3, Shl(r3, 2, 64)), Hex(<<3,3,3,3,3,3,3,3,3,3,3,3,3,3,3,3>>))
      r5 == And(Xor(r4, Shl(r4, 1, 64)), Hex(<<5,5,5,5,5,5,5,5,5,5,5,5,5,5,5,5>>))
  IN r5

\* A slip in xnmodp_square: the stack bit is used without inversion.
xnmodp_square_slip(r, i, P) == ReduceN(Shl(Spread(r), 1 - i, 64), P, 32)

\* generate.c:551-562: r = r^2 * x^1, then r <<= i, then r mod P.
xnmodp_square(r, i, P) == ReduceN(Shl(Spread(r), i, 64), P, 32)

\* generate.c:537-565
xnmodp(k, P) ==
  LET \* 538-542: push the low bits of n until n <= 31
      pushed == While(LAMBDA s : s.n > 31,
                      LAMBDA s : [n |-> s.n \div 2,
                                  stack |-> Or(Shl(s.stack, 1, 64),
                                               IF s.n % 2 = 1 THEN {0} ELSE {})],
                      [n |-> k, stack |-> Not({0}, 64)])
      \* 545: while ((i = stack & 1), stack >>= 1), with the body of 551-562
      unwound == While(LAMBDA s : Shr(s.stack, 1) # {},
                       LAMBDA s :
                         LET i == IF 0 \in s.stack THEN 1 ELSE 0
                         IN [stack |-> Shr(s.stack, 1),
                             r |-> xnmodp_square(s.r, i, P)],
                       [stack |-> Not(pushed.stack, 64),      \* 543
                        r |-> Shr({31}, pushed.n)])           \* 544
  IN And(unwound.r, Word32)

(***************************************************************************)
(* GF(2) polynomials in natural form: a set of exponents.  These are the   *)
(* mathematical objects the reversed words stand for.                      *)
(***************************************************************************)
Nat32(w) == {31 - b : b \in w}         \* bit 31 of a reversed uint32_t is x^0
Nat64(w) == {63 - b : b \in w}         \* bit 63 of a reversed uint64_t is x^0
PFull(P) == Nat32(P) \cup {32}         \* P with its implicit x^32 term

\* The product: x^e appears iff an odd number of pairs x^i * x^(e-i) do.
PolyMul(a, b) ==
  {e \in {i + j : i \in a, j \in b} : Cardinality({i \in a : (e - i) \in b}) % 2 = 1}

(***************************************************************************)
(* Unsigned arithmetic on words of a given width, as C computes it: the    *)
(* result is cut at the width (reduced modulo 2^width).                    *)
(***************************************************************************)
\* The word of a small number.
U32(k) == {i \in 0..30 : (k \div Pow2(i)) % 2 = 1}

\* a + b: the carries are passed on until none is left.
Add(a, b, width) ==
  While(LAMBDA s : s.c # {},
        LAMBDA s : [a |-> Xor(s.a, s.c), c |-> Shl(And(s.a, s.c), 1, width)],
        [a |-> a, c |-> b]).a

\* a * b: the sum of a << i over the bits i of b.
Mul(a, b, width) ==
  Iter(LAMBDA s : [i |-> s.i + 1,
                   p |-> IF s.i \in b THEN Add(s.p, Shl(a, s.i, width), width) ELSE s.p],
       [i |-> 0, p |-> {}], width).p

\* a - b for a >= b.
Sub(a, b, width) == Add(Add(a, Not(b, width), width), {0}, width)

\* a % b for b # 0, by long division from the top bit down.
Mod(a, b, width) ==
  Iter(LAMBDA s :
         LET r2 == Or(Shl(s.r, 1, width + 1), IF s.i \in a THEN {0} ELSE {})
         IN [i |-> s.i - 1,
             r |-> IF WordLess(r2, b) THEN r2 ELSE Sub(r2, b, width + 1)],
       [i |-> width - 1, r |-> {}], width).r

(***************************************************************************)
(* The indenting writer: generate.c:177-237.  A text is the sequence of    *)
(* its characters; base, itr and end are offsets into the text handed in.  *)
(***************************************************************************)
\* A slip in the initial state: the level starts at one.
indent_state_zero_slip == [stack |-> 0, level |-> 1, state |-> 0]

\* generate.c:249: indent_state_t indent_state = {0}
indent_state_zero == [stack |-> 0, level |-> 0, state |-> 0]

\* generate.c:209: fwrite of state->level items of two spaces.
indent_spaces(level) == [k \in 1..(2 * level) |-> " "]

\* generate.c:211: fwrite of count bytes of the literal "}}}}}}}}}}}}}}}}":
\* sixteen braces, then the NUL that ends the literal; what lies behind the
\* literal is not the program's to read and is written here as "?".
stored_braces(count) ==
  [k \in 1..count |-> IF k <= 16 THEN "}" ELSE IF k = 17 THEN NUL ELSE "?"]

\* generate.c:200 and 206: if ((itr - base) > 1) fwrite(base, 1, itr - base - 1, f)
write_prior(text, w) ==
  IF w.itr - w.base > 1 THEN w.out \o SubSeq(text, w.base + 1, w.itr - 1) ELSE w.out

\* A slip in pop_brace: the level is decremented whether or not the matching
\* open brace caused an indent.
pop_brace_slip(st) ==
  [st EXCEPT !.level = (st.level + 255) % 256, !.stack = st.stack \div 2]

\* generate.c:196-197 and 228-229: un-indent if the matching '{' caused an
\* indent (level is a uint8_t, stack a uint16_t).
pop_brace(st) ==
  [st EXCEPT !.level = (st.level + 256 - (st.stack % 2)) % 256,
             !.stack = st.stack \div 2]

\* A slip in indent_switch: a space after an open brace leaves the brace
\* pending, so that a later newline still indents.
indent_switch_slip(w, c) ==
  IF c = "{" THEN
    IF w.st.stack >= 32768 THEN [w EXCEPT !.fatal = "nesting too deep"]
    ELSE [w EXCEPT !.st.stack = (w.st.stack * 2) % 65536, !.st.state = 1]
  ELSE IF c = "\n" THEN
    LET level == (w.st.level + w.st.state) % 256
        stack == IF w.st.state % 2 = 1 /\ w.st.stack % 2 = 0
                 THEN w.st.stack + 1 ELSE w.st.stack
    IN IF level > 16 THEN [w EXCEPT !.st.stack = stack, !.st.level = level,
                                    !.fatal = "nesting too deep"]
       ELSE [w EXCEPT !.st.stack = stack, !.st.level = level, !.st.state = 2]
  ELSE IF c = "}" THEN [w EXCEPT !.st = [pop_brace(w.st) EXCEPT !.state = 0]]
  ELSE IF c = " " THEN w
  ELSE [w EXCEPT !.st.state = 0]

\* generate.c:215-234: the switch on c.
indent_switch(w, c) ==
  IF c = "{" THEN
    IF w.st.stack >= 32768 THEN [w EXCEPT !.fatal = "nesting too deep"]
    ELSE [w EXCEPT !.st.stack = (w.st.stack * 2) % 65536, !.st.state = 1]
  ELSE IF c = "\n" THEN
    LET level == (w.st.level + w.st.state) % 256
        stack == IF w.st.state % 2 = 1 /\ w.st.stack % 2 = 0
                 THEN w.st.stack + 1 ELSE w.st.stack      \* stack |= state, state <= 1
    IN IF level > 16 THEN [w EXCEPT !.st.stack = stack, !.st.level = level,
                                    !.fatal = "nesting too deep"]
       ELSE [w EXCEPT !.st.stack = stack, !.st.level = level, !.st.state = 2]
  ELSE IF c = "}" THEN [w EXCEPT !.st = [pop_brace(w.st) EXCEPT !.state = 0]]
  ELSE [w EXCEPT !.st.state = 0]

\* generate.c:186-234: one pass of the loop; w.itr is already past c.
indent_char(text, w0) ==
  LET c == text[w0.itr + 1]
      w == [w0 EXCEPT !.itr = w0.itr + 1]                           \* c = *itr++
  IN IF w.st.state >= 2 THEN
       IF c = "}" THEN                                              \* 194-203
         [w EXCEPT !.st = [pop_brace(w.st) EXCEPT !.state = (w.st.state + 1) % 256],
                   !.out = write_prior(text, w),
                   !.base = w.itr]
       ELSE IF c # "\n" \/ w.st.state > 2 THEN                      \* 204-212
         indent_switch([w EXCEPT !.out = write_prior(text, w)
                                           \o indent_spaces(w.st.level)
                                           \o stored_braces(w.st.state - 2),
                                 !.base = w.itr - 1,
                                 !.st.state = 0], c)
       ELSE indent_switch([w EXCEPT !.st.state = 0], c)             \* 213
     ELSE indent_switch(w, c)

\* generate.c:236: what is left between base and itr is written.
write_rest(text, w) ==
  IF w.fatal # "" THEN [out |-> w.out, st |-> w.st, fatal |-> w.fatal]
  ELSE [out |-> IF w.itr # w.base
                THEN w.out \o SubSeq(text, w.base + 1, w.itr) ELSE w.out,
        st |-> w.st, fatal |-> ""]

\* A slip in write_indenting: a call forgets that the call before it ended
\* at a newline or at an open brace.
write_indenting_slip(out, text, st) ==
  write_rest(text, While(LAMBDA s : s.fatal = "" /\ s.itr # Len(text),
                         LAMBDA s : indent_char(text, s),
                         [itr |-> 0, base |-> 0, out |-> out,
                          st |-> [st EXCEPT !.state = 0], fatal |-> ""]))

\* generate.c:183-237: the text is written to out; st is the state carried
\* from one call to the next.
write_indenting(out, text, st) ==
  write_rest(text, While(LAMBDA s : s.fatal = "" /\ s.itr # Len(text),
                         LAMBDA s : indent_char(text, s),
                         [itr |-> 0, base |-> 0, out |-> out, st |-> st, fatal |-> ""]))

(***************************************************************************)
(* The string buffers: generate.c:61-122 and 239-296.  A buffer is a block *)
(* of bytes (base), the number of bytes committed (size) and the number    *)
(* allocated (capacity).  A byte is a character, an operation code, or one *)
(* byte of a buffer pointer or of an offset; buffers are named by their    *)
(* position in the sequence of all buffers allocated, and 0 is NULL.       *)
(***************************************************************************)
PtrSize == 8          \* sizeof(sbuf_t*)
IdxSize == 4          \* sizeof(uint32_t)

SBUF_OP_END == "SBUF_OP_END"
SBUF_OP_DEFERRED == "SBUF_OP_DEFERRED"
SBUF_OP_DEFERRED_FN == "SBUF_OP_DEFERRED_FN"

char_byte(c) == [k |-> "char", c |-> c, p |-> 0]
op_byte(op) == [k |-> "op", c |-> op, p |-> 0]
ptr_bytes(x) == [j \in 1..PtrSize |-> [k |-> "ptr", c |-> "", p |-> x]]
idx_bytes(idx) == [j \in 1..IdxSize |-> [k |-> "idx", c |-> "", p |-> idx]]
str_bytes(str) == [j \in 1..Len(str) |-> char_byte(str[j])]

\* generate.c:67: calloc(1, sizeof(sbuf_t))
sbuf_new == [base |-> <<>>, size |-> 0, capacity |-> 0]

\* generate.c:69-78: the capacity after reserving size bytes.
sbuf_emplace(sb, size) ==
  IF sb.size + size > sb.capacity
  THEN LET new_capacity == (sb.capacity + size) * 2
       IN [sb EXCEPT !.capacity = IF new_capacity < 32 THEN 32 ELSE new_capacity]
  ELSE sb

\* The bytes stored at offset at, over what the block held there.
store(base, at, bytes) ==
  SubSeq(base, 1, at) \o bytes \o SubSeq(base, at + Len(bytes) + 1, Len(base))

\* generate.c:80-89: reserve, commit and fill Len(bytes) bytes.
sbuf_put(sb, bytes) ==
  LET r == sbuf_emplace(sb, Len(bytes))
  IN [r EXCEPT !.base = store(sb.base, sb.size, bytes), !.size = sb.size + Len(bytes)]

NULL_STR == <<"NULL">>
\* generate.c:91-94
put_str(sb, str) ==
  sbuf_put(sb, str_bytes(IF str = NULL_STR THEN <<"(", "n", "u", "l", "l", ")">> ELSE str))

\* A slip in put_deferred_sbuf: the record is stored at the start of the
\* block, in front of the bytes already committed.
put_deferred_sbuf_slip(sb, x) ==
  LET r == sbuf_emplace(sb, 2 + PtrSize)
  IN [r EXCEPT !.base = <<char_byte(NUL), op_byte(SBUF_OP_DEFERRED)>> \o ptr_bytes(x)
                          \o SubSeq(sb.base, 1, sb.size),
               !.size = sb.size + 2 + PtrSize]

\* generate.c:105-111: the record of a deferred buffer x appended to sb.
put_deferred_sbuf(sb, x) ==
  sbuf_put(sb, <<char_byte(NUL), op_byte(SBUF_OP_DEFERRED)>> \o ptr_bytes(x))

\* generate.c:239-246: the end marker is written behind the committed bytes
\* and the size set to 0.
sbuf_set_end_marker(b, return_to, return_idx) ==
  LET r == sbuf_emplace(b, 2 + PtrSize + IdxSize)
  IN [r EXCEPT !.base = store(b.base, b.size,
                              <<char_byte(NUL), op_byte(SBUF_OP_END)>>
                                \o ptr_bytes(return_to) \o idx_bytes(return_idx)),
               !.size = 0]

\* generate.c:256-258: the offset of the first NUL at or after itr.
text_end(base, itr) ==
  CHOOSE j \in itr..(Len(base) - 1) :
    /\ base[j + 1].k = "char" /\ base[j + 1].c = NUL
    /\ \A i \in itr..(j - 1) : ~(base[i + 1].k = "char" /\ base[i + 1].c = NUL)

\* generate.c:268: if (b2->size)
child_entered(b2) == b2.size # 0

\* generate.c:259-261: the text between the position and the NUL at itr goes
\* to the indenting writer.
flush_written(s, itr, w) ==
  [s EXCEPT !.out = w.out, !.st = w.st, !.fatal = w.fatal, !.itr = itr]

flush_text(s, base, itr) ==
  IF itr # s.itr
  THEN flush_written(s, itr, write_indenting(s.out, [j \in 1..(itr - s.itr) |-> base[s.itr + j].c],
                                             s.st))
  ELSE s

\* generate.c:262-293: the record behind the NUL at t.itr.
flush_op(t, base) ==
  LET itr == t.itr
      c == base[itr + 2].c                                         \* c = itr[1]
  IN IF t.fatal # "" THEN t
     ELSE IF c = SBUF_OP_DEFERRED THEN                             \* 263-272
       LET b2 == base[itr + 3].p
           next == itr + 2 + PtrSize
       IN IF child_entered(t.bufs[b2])
          THEN [t EXCEPT !.bufs[b2] = sbuf_set_end_marker(t.bufs[b2], t.b, next),
                         !.itr = 0, !.b = b2]
          ELSE [t EXCEPT !.itr = next]
     ELSE IF c = SBUF_OP_END THEN                                  \* 280-290
       LET return_to == base[itr + 3].p
       IN IF return_to # 0
          THEN [t EXCEPT !.bufs[t.b].size = itr, !.b = return_to,
                         !.itr = base[itr + 3 + PtrSize].p]
          ELSE [t EXCEPT !.bufs[t.b].size = itr, !.b = 0, !.done = TRUE]
     ELSE [t EXCEPT !.fatal = "bad sbuf op"]                       \* 292

\* generate.c:255-293: one pass of the loop of flush_sbuf_to.
flush_in(s, base) == flush_op(flush_text(s, base, text_end(base, s.itr)), base)

flush_pass(s) == flush_in(s, s.bufs[s.b].base)

\* generate.c:248-296: the bytes written to f, and the buffers afterwards.
flush_sbuf_to(bufs, b) ==
  While(LAMBDA s : ~s.done /\ s.fatal = "",
        LAMBDA s : flush_pass(s),
        [b |-> b, itr |-> 0, out |-> <<>>, st |-> indent_state_zero,
         bufs |-> [bufs EXCEPT ![b] = sbuf_set_end_marker(bufs[b], 0, 0)],
         done |-> FALSE, fatal |-> ""])

(***************************************************************************)
(* The algorithm string parser: generate.c:403-464.  A C string is the     *)
(* sequence of its characters; reading at its length gives the NUL that    *)
(* ends it.                                                                *)
(***************************************************************************)
Digits == <<"0", "1", "2", "3", "4", "5", "6", "7", "8", "9">>
IsDigit(c) == \E d \in 1..10 : Digits[d] = c         \* '0' <= c && c <= '9'
DigitVal(c) == (CHOOSE d \in 1..10 : Digits[d] = c) - 1     \* c - '0'
CharAt(value, i) == IF i < Len(value) THEN value[i + 1] ELSE NUL    \* value[i]

\* generate.c:322 and 300-307
ISA_NONE == "ISA_NONE"
ISA_NEON == "ISA_NEON"
ISA_NEON_EOR3 == "ISA_NEON_EOR3"
ISA_SSE == "ISA_SSE"
ISA_AVX512 == "ISA_AVX512"
ISA_AVX512_VPCLMULQDQ == "ISA_AVX512_VPCLMULQDQ"

\* generate.c:404: calloc(1, sizeof(algo_phase_t)); next is the position in
\* the list.
calloc_phase ==
  [v_acc |-> {}, v_load |-> {}, s_acc |-> {}, s_load |-> {},
   kernel_size |-> {}, use_end_ptr |-> {}]

\* generate.c:415-417 and 425-427: n = n * 10 + (c2 - '0') while value[i]
\* is a digit.
parse_digits(value, i, first) ==
  While(LAMBDA s : IsDigit(CharAt(value, s.i)),
        LAMBDA s : [i |-> s.i + 1,
                    n |-> Add(Mul(s.n, U32(10), 32), U32(DigitVal(CharAt(value, s.i))), 32)],
        [i |-> i, n |-> U32(DigitVal(first))])

\* A slip in acc_update: the accumulator count is the last N, not the largest.
acc_update_slip(acc, k) == k

\* generate.c:431 and 434: if (cur->v_acc < n) cur->v_acc = n;
acc_update(acc, k) == IF WordLess(acc, k) THEN k ELSE acc

\* generate.c:429-437: the term c with its numbers n and x, added to cur.
parse_term(cur, c, k, x) ==
  IF c = "v" THEN
    [cur EXCEPT !.v_load = Add(cur.v_load, Mul(k, x, 32), 32),
                !.v_acc = acc_update(cur.v_acc, k)]
  ELSE IF c = "s" THEN
    [cur EXCEPT !.s_load = Add(cur.s_load, Mul(k, x, 32), 32),
                !.s_acc = acc_update(cur.s_acc, k)]
  ELSE [cur EXCEPT !.kernel_size = k]

\* A slip in parse_x_allowed: a multiplier is taken after k as well.
parse_x_allowed_slip(c) == TRUE

\* generate.c:419: c != 'k'
parse_x_allowed(c) == c # "k"

\* generate.c:429-437: the term is added to the last phase of the list and
\* the position moves past its numbers.
parse_add(s, c, k, mul) ==
  [s EXCEPT !.i = mul.i, !.phases[Len(s.phases)] = parse_term(@, c, k, mul.n)]

\* generate.c:418-428: the multiplier, 1 unless an x follows the number.
parse_multiplier(value, s, c, num) ==
  IF CharAt(value, num.i) = "x" /\ parse_x_allowed(c) THEN             \* 419
    IF ~IsDigit(CharAt(value, num.i + 1))                               \* 420-421
    THEN [s EXCEPT !.fatal = "expected digit sequence after character x"]
    ELSE parse_add(s, c, num.n,
                   parse_digits(value, num.i + 2, CharAt(value, num.i + 1)))   \* 424-427
  ELSE parse_add(s, c, num.n, [i |-> num.i, n |-> U32(1)])              \* 418

\* generate.c:409-437: one v, s or k term; s.i is past the character c.
parse_number_term(value, s, c) ==
  IF ~IsDigit(CharAt(value, s.i))                                       \* 410-411
  THEN [s EXCEPT !.fatal = "expected digit sequence after character"]
  ELSE parse_multiplier(value, s, c,
                        parse_digits(value, s.i + 1, CharAt(value, s.i)))      \* 414-417

\* generate.c:408-447: one pass of the loop over the characters.
parse_char(value, s) ==
  LET c == CharAt(value, s.i)
      t == [s EXCEPT !.i = s.i + 1]                               \* value[i++]
  IN IF c \in {"v", "s", "k"} THEN parse_number_term(value, t, c)
     ELSE IF c = "e" THEN [t EXCEPT !.phases[Len(s.phases)].use_end_ptr = U32(1)]
     ELSE IF c = "_" THEN [t EXCEPT !.phases = Append(s.phases, calloc_phase)]
     ELSE [t EXCEPT !.fatal = "unrecognised character"]

\* generate.c:449-451
phase_default(cur) ==
  IF cur.s_acc = {} /\ cur.v_acc = {}
  THEN [cur EXCEPT !.s_acc = U32(1), !.s_load = U32(1)] ELSE cur

\* generate.c:452-461: the message of the first check that fails, or "".
phase_check(cur, isa) ==
  IF cur.s_acc # {} /\ Mod(cur.s_load, cur.s_acc, 32) # {}
    THEN "s load count not an integer multiple of s acc count"
  ELSE IF cur.v_acc # {} /\ Mod(cur.v_load, cur.v_acc, 32) # {}
    THEN "v load count not an integer multiple of v acc count"
  ELSE IF isa = ISA_NONE /\ cur.v_load # {}
    THEN "need to specify an ISA to use vector accumulators"
  ELSE IF isa = ISA_NONE /\ WordLess(U32(1), cur.s_acc)
    THEN "need to specify an ISA to use more than one scalar accumulator"
  ELSE ""

\* generate.c:405-448: the loop over the characters of value.
parse_phases(value) ==
  While(LAMBDA s : s.fatal = "" /\ CharAt(value, s.i) # NUL,
        LAMBDA s : parse_char(value, s),
        [i |-> 0, phases |-> <<calloc_phase>>, fatal |-> ""])

\* generate.c:449-462: the loop over the phases read.
check_phases(read, isa) ==
  While(LAMBDA s : s.fatal = "" /\ s.i <= Len(s.phases),
        LAMBDA s :
          LET cur == phase_default(s.phases[s.i])
          IN [i |-> s.i + 1,
              phases |-> [s.phases EXCEPT ![s.i] = cur],
              fatal |-> phase_check(cur, isa)],
        [i |-> 1, phases |-> read.phases, fatal |-> read.fatal])

\* generate.c:463: return result, unless a FATAL ended the program.
parse_result(checked) ==
  IF checked.fatal = "" THEN [fatal |-> "", phases |-> checked.phases]
  ELSE [fatal |-> checked.fatal, phases |-> <<>>]

\* generate.c:403-464.  fatal is "" when the list is returned, else the
\* message FATAL exits with; isa is g_isa at the time of the call.
parse_algo(value, isa) == parse_result(check_phases(parse_phases(value), isa))

(***************************************************************************)
(* The command line: generate.c:352-360, 376-401 and 466-510.              *)
(***************************************************************************)
\* generate.c:352-360.  The names are spelled out as C strings.
parse_isa(isa) ==
  IF isa = <<"n", "o", "n", "e">> THEN [fatal |-> "", isa |-> ISA_NONE]
  ELSE IF isa = <<"n", "e", "o", "n">> THEN [fatal |-> "", isa |-> ISA_NEON]
  ELSE IF isa = <<"n", "e", "o", "n", "_", "e", "o", "r", "3">>
    THEN [fatal |-> "", isa |-> ISA_NEON_EOR3]
  ELSE IF isa \in {<<"s", "s", "e">>, <<"a", "v", "x">>, <<"a", "v", "x", "2">>}
    THEN [fatal |-> "", isa |-> ISA_SSE]
  ELSE IF isa = <<"a", "v", "x", "5", "1", "2">> THEN [fatal |-> "", isa |-> ISA_AVX512]
  ELSE IF isa = <<"a", "v", "x", "5", "1", "2", "_", "v", "p", "c", "l", "m", "u", "l", "q", "d", "q">>
    THEN [fatal |-> "", isa |-> ISA_AVX512_VPCLMULQDQ]
  ELSE [fatal |-> "unknown ISA", isa |-> ISA_NONE]

HexLower == <<"a", "b", "c", "d", "e", "f">>
HexUpper == <<"A", "B", "C", "D", "E", "F">>

\* generate.c:389-392: the value of a hexadecimal digit, or -1 for any
\* other character.
hex_digit(c) ==
  IF IsDigit(c) THEN DigitVal(c)
  ELSE IF \E d \in 1..6 : HexLower[d] = c THEN 9 + (CHOOSE d \in 1..6 : HexLower[d] = c)
  ELSE IF \E d \in 1..6 : HexUpper[d] = c THEN 9 + (CHOOSE d \in 1..6 : HexUpper[d] = c)
  ELSE -1

\* generate.c:377-381: the polynomials known by name, in lower or in upper
\* case.
poly_names ==
  <<[lower |-> <<"c", "r", "c", "3", "2">>, upper |-> <<"C", "R", "C", "3", "2">>,
     poly |-> REV_POLY_CRC32],
    [lower |-> <<"c", "r", "c", "3", "2", "c">>, upper |-> <<"C", "R", "C", "3", "2", "C">>,
     poly |-> REV_POLY_CRC32C],
    [lower |-> <<"c", "r", "c", "3", "2", "k">>, upper |-> <<"C", "R", "C", "3", "2", "K">>,
     poly |-> REV_POLY_CRC32K],
    [lower |-> <<"c", "r", "c", "3", "2", "k", "2">>, upper |-> <<"C", "R", "C", "3", "2", "K", "2">>,
     poly |-> REV_POLY_CRC32K2],
    [lower |-> <<"c", "r", "c", "3", "2", "q">>, upper |-> <<"C", "R", "C", "3", "2", "Q">>,
     poly |-> REV_POLY_CRC32Q]>>

\* A slip in poly_digits: only the prefix 0x in lower case is skipped.
poly_digits_slip(value) ==
  IF CharAt(value, 0) = "0" /\ CharAt(value, 1) = "x" /\ CharAt(value, 2) # NUL
  THEN SubSeq(value, 3, Len(value)) ELSE value

\* generate.c:385-387: a leading 0x or 0X is skipped when a digit follows.
poly_digits(value) ==
  IF CharAt(value, 0) = "0" /\ CharAt(value, 1) \in {"x", "X"} /\ CharAt(value, 2) # NUL
  THEN SubSeq(value, 3, Len(value)) ELSE value

\* generate.c:388-395: the loop over the digits; at most limit of them.
poly_read(value, limit) ==
  While(LAMBDA s : s.fatal = "" /\ CharAt(value, s.i) # NUL,
        LAMBDA s :
          LET c == hex_digit(CharAt(value, s.i))
          IN IF c < 0 THEN [s EXCEPT !.fatal = "invalid polynomial"]
             ELSE IF s.i + 1 > limit THEN [s EXCEPT !.fatal = "polynomial too long"]
             ELSE [i |-> s.i + 1,
                   poly |-> Add(Shl(s.poly, 4, 32), U32(c), 32),
                   fatal |-> ""],
        [i |-> 0, poly |-> {}, fatal |-> ""])

\* generate.c:396-399
poly_result(read) ==
  IF read.fatal # "" THEN [fatal |-> read.fatal, poly |-> {}]
  ELSE IF read.i + 1 < 9 THEN [fatal |-> "polynomial too short", poly |-> {}]   \* 396
  ELSE [fatal |-> "", poly |-> rev32(read.poly)]

\* generate.c:383-399: a hexadecimal literal.
poly_hex(value) ==
  poly_result(poly_read(value, 8 + (IF CharAt(value, 0) = "1" THEN 1 ELSE 0)))  \* 393

parse_poly_hex(value0) == poly_hex(poly_digits(value0))

\* generate.c:376-401
parse_poly(value) ==
  IF \E k \in 1..5 : value \in {poly_names[k].lower, poly_names[k].upper}
  THEN [fatal |-> "",
        poly |-> poly_names[CHOOSE k \in 1..5 :
                              value \in {poly_names[k].lower, poly_names[k].upper}].poly]
  ELSE parse_poly_hex(value)

\* generate.c:468-473: the options in the order of ARGS, each with its
\* spellings, "--" #name first.
arg_names == <<"isa", "poly", "algo", "out">>
arg_spellings ==
  [isa |-> << <<"-", "-", "i", "s", "a">>, <<"-", "i">> >>,
   poly |-> << <<"-", "-", "p", "o", "l", "y">>, <<"-", "p">>,
               <<"-", "-", "p", "o", "l", "y", "n", "o", "m", "i", "a", "l">> >>,
   algo |-> << <<"-", "-", "a", "l", "g", "o">>, <<"-", "a">>,
               <<"-", "-", "a", "l", "g", "o", "r", "i", "t", "h", "m">> >>,
   out |-> << <<"-", "-", "o", "u", "t">>, <<"-", "o">>,
              <<"-", "-", "o", "u", "t", "p", "u", "t">> >>]

\* generate.c:332-340
match_spelling(spellings, name) == \E k \in 1..Len(spellings) : spellings[k] = name

\* generate.c:486
help_spellings == {<<"-", "-", "h", "e", "l", "p">>, <<"-", "h">>, <<"-", "?">>}

\* generate.c:490: strchr(arg, '='), as the number of characters before it,
\* or -1 when there is none.
strchr_eq(arg) ==
  IF \E k \in 1..Len(arg) : arg[k] = "="
  THEN (CHOOSE k \in 1..Len(arg) : arg[k] = "=" /\ \A j \in 1..(k - 1) : arg[j] # "=") - 1
  ELSE -1

\* generate.c:342-350: the first option that has this spelling, or "" for
\* none.
match_arg(name) ==
  IF \E k \in 1..4 : match_spelling(arg_spellings[arg_names[k]], name)
  THEN arg_names[CHOOSE k \in 1..4 :
                   /\ match_spelling(arg_spellings[arg_names[k]], name)
                   /\ \A j \in 1..(k - 1) : ~match_spelling(arg_spellings[arg_names[j]], name)]
  ELSE ""

\* generate.c:484-505: one pass of the loop over argv.  argv[i] of the C
\* code is argv[i + 1] here; an option's value is <<>> while it is NULL and
\* <<string>> once set.
parse_arg(args, s) ==
  LET arg == args[s.i + 1]
      eq == strchr_eq(arg)
      len == IF eq >= 0 THEN eq ELSE Len(arg)                          \* n
      m == match_arg(SubSeq(arg, 1, len))
  IN IF arg \in help_spellings THEN [s EXCEPT !.exit = "help"]
     ELSE IF m = "" THEN [s EXCEPT !.exit = "fatal", !.fatal = "unknown option"]
     ELSE IF eq >= 0
       THEN [s EXCEPT !.i = s.i + 1, !.value[m] = <<SubSeq(arg, eq + 2, Len(arg))>>]
     ELSE IF s.i + 1 < Len(args)
       THEN [s EXCEPT !.i = s.i + 2, !.value[m] = <<args[s.i + 2]>>]
     ELSE [s EXCEPT !.exit = "fatal", !.fatal = "missing value for option"]

\* generate.c:484-505: the loop.
parse_arg_values(args) ==
  While(LAMBDA s : s.exit = "" /\ s.i < Len(args),
        LAMBDA s : parse_arg(args, s),
        [i |-> 1, exit |-> "", fatal |-> "",
         value |-> [isa |-> <<>>, poly |-> <<>>, algo |-> <<>>, out |-> <<>>]])

\* generate.c:507-509: value && *value
arg_given(v) == v # <<>> /\ v[1] # <<>>

\* generate.c:513: the text of the format before its %s.
header_open ==
  <<"/", "*", " ", "G", "e", "n", "e", "r", "a", "t", "e", "d", " ", "b",
    "y", " ", "h", "t", "t", "p", "s", ":", "/", "/", "g", "i", "t", "h",
    "u", "b", ".", "c", "o", "m", "/", "c", "o", "r", "s", "i", "x", "/",
    "f", "a", "s", "t", "-", "c", "r", "c", "3", "2", "/", " ", "u", "s",
    "i", "n", "g", ":", " ", "*", "/", "\n", "/", "*", " ">>

\* generate.c:520-521
header_close ==
  <<" ", "*", "/", "\n", "/", "*", " ", "M", "I", "T", " ", "l", "i", "c",
    "e", "n", "s", "e", "d", " ", "*", "/", "\n", "\n">>

\* generate.c:514-519: " %s %s" of spellings[1] and the value, for every
\* option but out that has a value, in the order of ARGS.
header_args(value) ==
  LET one(name) == IF value[name] # <<>>
                   THEN <<" ">> \o arg_spellings[name][2] \o <<" ">> \o value[name][1]
                   ELSE <<>>
  IN one("isa") \o one("poly") \o one("algo")

\* generate.c:512-521: the comment that opens the output, put in g_includes.
put_header(b, args, value) ==
  put_str(put_str(put_str(put_str(b, header_open), args[1]), header_args(value)),
          header_close)


\* What parse_args leaves behind: pc is "parsed" on return, "exit0" after
\* --help and "exit1" after a FATAL.
args_state(pc, fatal, isa, poly, phases, out, includes) ==
  [pc |-> pc, fatal |-> fatal, g_isa |-> isa, g_poly |-> poly, g_algo |-> phases,
   g_out_path |-> out, g_includes |-> includes]

\* generate.c:509-521: g_algo, then the output path and the header.
args_algo(args, includes, value, isa, poly, algo) ==
  IF algo.fatal # "" THEN args_state("exit1", algo.fatal, isa, poly, <<>>, <<>>, includes)
  ELSE args_state("parsed", "", isa, poly, algo.phases,
                  value.out,                                           \* 510
                  put_header(includes, args, value))                   \* 512-521

\* generate.c:508: g_poly
args_poly(args, includes, value, isa, poly0, poly) ==
  IF poly.fatal # "" THEN args_state("exit1", poly.fatal, isa, poly0, <<>>, <<>>, includes)
  ELSE args_algo(args, includes, value, isa, poly.poly,
                 IF arg_given(value.algo) THEN parse_algo(value.algo[1], isa)   \* 509
                 ELSE [fatal |-> "", phases |-> <<>>])

\* generate.c:507: g_isa
args_isa(args, includes, value, isa0, poly0, isa) ==
  IF isa.fatal # "" THEN args_state("exit1", isa.fatal, isa0, poly0, <<>>, <<>>, includes)
  ELSE args_poly(args, includes, value, isa.isa, poly0,
                 IF arg_given(value.poly) THEN parse_poly(value.poly[1])        \* 508
                 ELSE [fatal |-> "", poly |-> poly0])

\* generate.c:484-507: what follows the loop over argv.
args_read(args, isa0, poly0, includes, a) ==
  IF a.exit = "help" THEN args_state("exit0", "", isa0, poly0, <<>>, <<>>, includes)
  ELSE IF a.exit = "fatal"
    THEN args_state("exit1", a.fatal, isa0, poly0, <<>>, <<>>, includes)
  ELSE args_isa(args, includes, a.value, isa0, poly0,
                IF arg_given(a.value.isa) THEN parse_isa(a.value.isa[1])        \* 507
                ELSE [fatal |-> "", isa |-> isa0])

\* generate.c:466-522.  isa0 and poly0 are g_isa and g_poly before the call,
\* includes is the buffer g_includes.
parse_args(args, isa0, poly0, includes) ==
  args_read(args, isa0, poly0, includes, parse_arg_values(args))

(***************************************************************************)
(* The helpers of the emitted file: generate.c:568-851.  g_out and         *)
(* g_includes are kept as the sequence of the things put into them: a      *)
(* header is its name, a helper is the name it defines and the ISA its     *)
(* body is written for.  The static done of every need_ function and the   *)
(* globals the functions assign are fields of one record.                  *)
(***************************************************************************)
\* generate.c:300-307: the value of an isa_t.
isa_number(isa) ==
  CASE isa = ISA_NONE -> 0
    [] isa = ISA_NEON -> 1
    [] isa = ISA_NEON_EOR3 -> 2
    [] isa = ISA_SSE -> 3
    [] isa = ISA_AVX512 -> 4
    [] isa = ISA_AVX512_VPCLMULQDQ -> 5

is_neon(isa) == isa \in {ISA_NEON, ISA_NEON_EOR3}

\* generate.c:568-577 and the static done of 581, 639, 672, 797 and 816,
\* all zero when main starts.
helpers_zero ==
  [scalar_fn |-> [size \in {1, 4, 8} |->
                    CASE size = 1 -> "crc_u8" [] size = 4 -> "crc_u32" [] size = 8 -> "crc_u64"],
   g_table_planes |-> 0,
   done_h |-> {}, done_clmul |-> {}, done_scalar |-> {},
   done_clmul_scalar |-> FALSE, done_shift |-> FALSE,
   g_includes |-> <<>>, g_out |-> <<>>, written |-> <<>>, fatal |-> ""]

Define(name, isa) == [def |-> name, isa |-> isa]
Include(name) == [def |-> "#include", isa |-> name]

\* generate.c:579-584: need_<name>_h
need_h(h, name) ==
  [h EXCEPT !.g_includes = IF name \in h.done_h THEN @ ELSE Append(@, Include(name)),
            !.done_h = @ \cup {name}]

\* generate.c:592-602
emit_standard_preprocessor(h) ==
  [h EXCEPT !.g_includes = @ \o <<Include("stddef"), Include("stdint")>>,
            !.g_out = Append(@, Define("CRC_AINLINE", ISA_NONE))]

need_crc_table_slip(h, planes) ==
  IF h.g_table_planes = 0
  THEN [h EXCEPT !.g_out = Append(@, Define("g_crc_table", ISA_NONE)),
                 !.g_table_planes = planes]
  ELSE h

\* generate.c:626-636
need_crc_table(h, planes) ==
  IF planes > h.g_table_planes
  THEN [h EXCEPT !.g_out = IF h.g_table_planes = 0
                           THEN Append(@, Define("g_crc_table", ISA_NONE)) ELSE @,
                 !.g_table_planes = planes]
  ELSE h

\* generate.c:640-641: mask = 1u << (lo + 2 * (uint32_t)isa), as the number
\* of its bit.
clmul_mask(which, isa) == (IF which = "lo" THEN 1 ELSE 0) + 2 * isa_number(isa)

\* The name need_clmul_fn defines for an ISA: clmul_lo_e and clmul_hi_e
\* take the addend as a third operand (generate.c:649).
clmul_name(which, isa) ==
  CASE which = "lo" /\ isa = ISA_NEON -> "clmul_lo_e"
    [] which = "hi" /\ isa = ISA_NEON -> "clmul_hi_e"
    [] which = "lo" /\ isa # ISA_NEON -> "clmul_lo"
    [] which = "hi" /\ isa # ISA_NEON -> "clmul_hi"

\* generate.c:645-668: the switch on isa.
clmul_switch(h, which, isa) ==
  IF is_neon(isa)
    THEN [need_h(h, "arm_neon") EXCEPT !.g_out = Append(@, Define(clmul_name(which, isa), isa))]
  ELSE IF isa \in {ISA_SSE, ISA_AVX512}
    THEN [need_h(h, "wmmintrin") EXCEPT !.g_out = Append(@, Define(clmul_name(which, isa), isa))]
  ELSE IF isa = ISA_AVX512_VPCLMULQDQ
    THEN [need_h(h, "immintrin") EXCEPT !.g_out = Append(@, Define(clmul_name(which, isa), isa))]
  ELSE [h EXCEPT !.fatal = "bad ISA in need_clmul_fn"]

\* A slip in need_clmul_fn: the mask is not recorded in done.
need_clmul_fn_slip(h, which, isa) ==
  IF clmul_mask(which, isa) \in h.done_clmul THEN h
  ELSE clmul_switch(h, which, isa)

\* generate.c:638-669
need_clmul_fn(h, which, isa) ==
  IF clmul_mask(which, isa) \in h.done_clmul THEN h
  ELSE clmul_switch([h EXCEPT !.done_clmul = @ \cup {clmul_mask(which, isa)}], which, isa)

\* generate.c:685-742: what the body of a scalar helper asks for before the
\* helper is put into g_out.
RECURSIVE need_crc_scalar(_, _, _)
scalar_body(h, size, isa) ==
  IF size = 1 THEN need_crc_table(h, 1)                                   \* 686
  ELSE IF isa = ISA_NONE
    THEN IF size = 4 THEN need_crc_table(h, 4)                            \* 693
         ELSE need_crc_scalar(h, 4, isa)                                  \* 720
  ELSE IF is_neon(isa) THEN need_clmul_fn(h, "lo", ISA_NEON_EOR3)         \* 700, 726
  ELSE need_h(need_h(h, "nmmintrin"), "wmmintrin")                        \* 706-707, 732-733

\* generate.c:671-745: done is a mask of the sizes asked for; a size above
\* 8 marks the sizes as done and defines nothing.
need_crc_scalar(h, size, isa) ==
  IF U32(size) \cap h.done_scalar # {} THEN h
  ELSE IF size > 8 THEN [h EXCEPT !.done_scalar = @ \cup U32(size)]
  ELSE IF size \notin {1, 4, 8} THEN [h EXCEPT !.done_scalar = @ \cup U32(size)]
  ELSE [scalar_body([h EXCEPT !.done_scalar = @ \cup U32(size)], size, isa)
          EXCEPT !.g_out = Append(@, Define(h.scalar_fn[size], isa))]     \* 744

\* The names of the instructions of the target that compute the CRC of
\* the polynomial (generate.c:774-776, 782-784, 788-790).
crc_instructions(poly, isa) ==
  IF poly = REV_POLY_CRC32 /\ is_neon(isa)
    THEN [size \in {1, 4, 8} |->
            CASE size = 1 -> "__crc32b" [] size = 4 -> "__crc32w" [] size = 8 -> "__crc32d"]
  ELSE IF poly = REV_POLY_CRC32C /\ is_neon(isa)
    THEN [size \in {1, 4, 8} |->
            CASE size = 1 -> "__crc32cb" [] size = 4 -> "__crc32cw" [] size = 8 -> "__crc32cd"]
  ELSE [size \in {1, 4, 8} |->
          CASE size = 1 -> "_mm_crc32_u8" [] size = 4 -> "_mm_crc32_u32"
            [] size = 8 -> "_mm_crc32_u64"]

\* generate.c:770-793: the part of init_isa that looks at g_poly.
init_isa(h, isa, poly) ==
  IF poly \in {REV_POLY_CRC32, REV_POLY_CRC32C} /\ is_neon(isa)
    THEN need_crc_scalar([need_h(h, "arm_acle") EXCEPT
                            !.scalar_fn = crc_instructions(poly, isa)], 15, isa)
  ELSE IF poly = REV_POLY_CRC32C /\ isa \in {ISA_SSE, ISA_AVX512, ISA_AVX512_VPCLMULQDQ}
    THEN need_crc_scalar([need_h(h, "nmmintrin") EXCEPT
                            !.scalar_fn = crc_instructions(poly, isa)], 15, isa)
  ELSE h

\* generate.c:796-813
need_clmul_scalar(h, isa) ==
  IF h.done_clmul_scalar THEN h
  ELSE [need_h([h EXCEPT !.done_clmul_scalar = TRUE],
               IF is_neon(isa) THEN "arm_neon" ELSE "wmmintrin")
          EXCEPT !.g_out = Append(h.g_out, Define("clmul_scalar", isa))]

\* A slip in need_crc_shift: crc_shift is put before xnmodp.
need_crc_shift_slip(h, isa) ==
  IF h.done_shift THEN h
  ELSE [need_crc_scalar(need_crc_scalar(need_clmul_scalar([h EXCEPT !.done_shift = TRUE], isa),
                                        4, isa), 8, isa)
          EXCEPT !.g_out = @ \o <<Define("crc_shift", isa), Define("xnmodp", isa)>>]

\* generate.c:815-851: xnmodp and crc_shift follow what they ask for.
need_crc_shift(h, isa) ==
  IF h.done_shift THEN h
  ELSE [need_crc_scalar(need_crc_scalar(need_clmul_scalar([h EXCEPT !.done_shift = TRUE], isa),
                                        4, isa), 8, isa)
          EXCEPT !.g_out = @ \o <<Define("xnmodp", isa), Define("crc_shift", isa)>>]

\* generate.c:248-296: g_includes is the first thing in g_out.
flush_helpers(h) == [h EXCEPT !.written = h.g_includes \o h.g_out]

(***************************************************************************)
(* The xnmodp that need_crc_shift writes into the output (generate.c:      *)
(* 824-846), run on the words of the emitted program.                      *)
(***************************************************************************)
\* generate.c:691-716: crc_u32(acc, 0) is 32
\* single-bit reductions of acc.
crc_u32_zero(acc, P) == ReduceN(acc, P, 32)

\* generate.c:717-742: crc_u64(0, y) is 64 single-bit
\* reductions of the 64 bits of y.
crc_u64_of(y, P) == ReduceN(y, P, 64)

\* generate.c:836-842: the low 64 bits of the carry-less product of acc
\* with itself; bit i of acc gives bit 2 * i.
emitted_square(acc) == {2 * i : i \in acc}

\* A slip in emitted_halve: 15 is taken off.
emitted_halve_slip(k) == (k \div 2) - 15

\* generate.c:827: n = (n >> 1) - 16
emitted_halve(k) == (k \div 2) - 16

\* generate.c:824-846
xnmodp_emitted(k, P) ==
  LET \* 827-829: push the low bits of n until n <= 191
      pushed == While(LAMBDA s : s.n > 191,
                      LAMBDA s : [n |-> emitted_halve(s.n),
                                  stack |-> Or(Shl(s.stack, 1, 64),
                                               IF s.n % 2 = 1 THEN {0} ELSE {})],
                      [n |-> k, stack |-> Not({0}, 64)])
      \* 831-834: acc = 0x80000000 >> (n & 31), then n >> 5 times crc_u32(acc, 0)
      start == Iter(LAMBDA acc : crc_u32_zero(acc, P), Shr({31}, pushed.n % 32),
                    pushed.n \div 32)
      \* 835-844: while ((low = stack & 1), stack >>= 1) acc = crc_u64(0, y << low)
      unwound == While(LAMBDA s : Shr(s.stack, 1) # {},
                       LAMBDA s :
                         LET low == IF 0 \in s.stack THEN 1 ELSE 0
                         IN [stack |-> Shr(s.stack, 1),
                             acc |-> crc_u64_of(Shl(emitted_square(s.acc), low, 64), P)],
                       [stack |-> Not(pushed.stack, 64),      \* 830
                        acc |-> start])
  IN unwound.acc

(***************************************************************************)
(* The formatter: generate.c:124-170.  A uint32_t x is kept as its two     *)
(* 16-bit halves, x = hi * 65536 + lo.                                     *)
(***************************************************************************)
Half == 65536
u32(hi, lo) == [hi |-> hi, lo |-> lo]

\* x % 10u and x / 10u
mod10(x) == (((x.hi % 10) * Half) + x.lo) % 10
div10(x) == u32(x.hi \div 10, (((x.hi % 10) * Half) + x.lo) \div 10)

\* x & 15u and x >> 4
low4(x) == x.lo % 16
shr4(x) == u32(x.hi \div 16, ((x.hi % 16) * (Half \div 16)) + (x.lo \div 16))

\* generate.c:139: "0123456789abcdef"[d]; the first ten are '0' + d of 129.
digit_chars ==
  <<"0", "1", "2", "3", "4", "5", "6", "7", "8", "9", "a", "b", "c", "d", "e", "f">>

\* generate.c:126-131: the digits written into tmp, from tmp + 10 down.
u32_digits(x) ==
  DoWhile(LAMBDA s : s.x # u32(0, 0),
          LAMBDA s : [tmp |-> <<digit_chars[mod10(s.x) + 1]>> \o s.tmp, x |-> div10(s.x)],
          [tmp |-> <<>>, x |-> x]).tmp

\* generate.c:133: memcpy(dst, itr, 8): the first 8 of the digits, or the
\* digits and the bytes of tmp behind them, which were never assigned.
u32_copied(digits, junk) ==
  [j \in 1..8 |-> IF j <= Len(digits) THEN char_byte(digits[j]) ELSE junk[j]]

\* The bytes of the block at dst + 8 and dst + 9: what an earlier call left
\* there, or what realloc gave.
u32_behind(sb, junk) ==
  [j \in 1..2 |-> IF sb.size + 8 + j <= Len(sb.base) THEN sb.base[sb.size + 8 + j]
                  ELSE junk[8 + j]]

\* generate.c:124-134.  junk stands for the bytes the function reads
\* without their having been assigned.
put_u32(sb, x, junk) ==
  [sbuf_emplace(sb, 10) EXCEPT
     !.base = store(sb.base, sb.size,
                    u32_copied(u32_digits(x), junk)
                      \o SubSeq(u32_behind(sb, junk), 1, Len(u32_digits(x)) - 8)),
     !.size = sb.size + Len(u32_digits(x))]

\* generate.c:138-140: s[i] for i = 7 down to 0.
u32_hex(x) ==
  Iter(LAMBDA s : [str |-> <<digit_chars[low4(s.x) + 1]>> \o s.str, x |-> shr4(s.x)],
       [str |-> <<>>, x |-> x], 8).str

\* generate.c:135-141
put_u32_hex(sb, x) == sbuf_put(sb, str_bytes(u32_hex(x)))

\* generate.c:163: do { ++fmt; } while (*fmt != '%' && *fmt != '\0'), from
\* the offset from on; the offset the loop ends at.
fmt_run(fmt, from) ==
  DoWhile(LAMBDA i : CharAt(fmt, i) # "%" /\ CharAt(fmt, i) # NUL,
          LAMBDA i : i + 1, from)

\* generate.c:162-164: put_str_len(sb, base, fmt - base) after the run.
fmt_lit(s, fmt, base, from) ==
  [s EXCEPT !.sb = sbuf_put(s.sb, str_bytes(SubSeq(fmt, base + 1, fmt_run(fmt, from)))),
            !.i = fmt_run(fmt, from)]

\* generate.c:150-158: the conversion c; past is the offset behind its two
\* characters.
fmt_convert(s, fmt, c, past, args, junk) ==
  IF c = "s" THEN [s EXCEPT !.sb = put_str(s.sb, args[s.a]), !.a = s.a + 1, !.i = past]
  ELSE IF c = "u"
    THEN [s EXCEPT !.sb = put_u32(s.sb, args[s.a], junk), !.a = s.a + 1, !.i = past]
  ELSE IF c = "x"
    THEN [s EXCEPT !.sb = put_u32_hex(s.sb, args[s.a]), !.a = s.a + 1, !.i = past]
  ELSE IF c = "%" THEN fmt_lit(s, fmt, past - 1, past)                      \* 156
  ELSE [s EXCEPT !.fatal = "bad format char"]

\* generate.c:148-168: one pass of the loop.
fmt_pass(s, fmt, args, junk) ==
  IF CharAt(fmt, s.i) = "%"
    THEN fmt_convert(s, fmt, CharAt(fmt, s.i + 1), s.i + 2, args, junk)
  ELSE IF CharAt(fmt, s.i) # NUL THEN fmt_lit(s, fmt, s.i, s.i)
  ELSE [s EXCEPT !.done = TRUE]

\* generate.c:143-170.  args are the arguments behind fmt, in their order;
\* fatal is "" when the function returns.
put_fmt(sb, fmt, args, junk) ==
  While(LAMBDA s : ~s.done /\ s.fatal = "",
        LAMBDA s : fmt_pass(s, fmt, args, junk),
        [i |-> 0, a |-> 1, sb |-> sb, done |-> FALSE, fatal |-> ""])

(***************************************************************************)
(* The sizes of a phase: generate.c:1061-1105, in uint32_t arithmetic.  A  *)
(* number is a word of the parser; V is g_vector_bytes and nat is          *)
(* g_scalar_natural_bytes.                                                 *)
(***************************************************************************)
\* generate.c:575 and 763-765: g_scalar_natural_bytes after init_isa.
scalar_natural_bytes(isa) == IF isa = ISA_NONE THEN 4 ELSE 8

\* generate.c:576 and 754-755: g_vector_bytes after init_isa.
vector_bytes(isa) == IF isa = ISA_AVX512_VPCLMULQDQ THEN 64 ELSE 16

\* generate.c:1061: the phases that have a kernel.
has_block(ap) == ap.v_load # {} \/ WordLess(U32(1), ap.s_load)

\* a / b for b # 0, by long division from the top bit down.
Div(a, b, width) ==
  Iter(LAMBDA s :
         LET r2 == Or(Shl(s.r, 1, width + 1), IF s.i \in a THEN {0} ELSE {})
         IN IF WordLess(r2, b)
            THEN [i |-> s.i - 1, r |-> r2, q |-> s.q]
            ELSE [i |-> s.i - 1, r |-> Sub(r2, b, width + 1), q |-> s.q \cup {s.i}],
       [i |-> width - 1, r |-> {}, q |-> {}], width).q

\* generate.c:1067 and 1097: a division by block_size.  A division by zero
\* is undefined: zero is "trap" where the instruction traps and "zero"
\* where it gives 0.
div_block(a, block, zero) ==
  IF block = {} THEN [q |-> {}, trap |-> zero = "trap"]
  ELSE [q |-> Div(a, block, 32), trap |-> FALSE]

\* generate.c:1063
block_size(ap, V, nat) == Add(Mul(ap.v_load, V, 32), Mul(ap.s_load, nat, 32), 32)

\* generate.c:1065
kernel_align(ap, V, nat) == IF ap.v_load # {} THEN V ELSE nat

\* generate.c:1066
kernel_ideal_size(ap, align) == Mul(Div(ap.kernel_size, align, 32), align, 32)

\* generate.c:1073-1094: scalar_tail before the kernel is recomputed.
tail_first(ap, V, nat, itrs) ==
  IF ap.v_load = {} THEN (IF WordLess(U32(1), ap.s_acc) THEN nat ELSE {})        \* 1074-1081
  ELSE IF ap.s_load # {} THEN
    IF itrs # {}
    THEN (IF Mod(Mul(Mul(itrs, ap.s_load, 32), nat, 32), V, 32) # {} THEN nat ELSE {})
    ELSE (IF Mod(Mul(ap.s_load, nat, 32), V, 32) # {} THEN nat ELSE {})          \* 1089-1093
  ELSE {}

\* A slip in tail_extend: the tail is left as it is.
tail_extend_slip(tail, align, excess) == tail

\* generate.c:1100-1103: the tail extended to keep the alignment.
tail_extend(tail, align, excess) ==
  IF excess # {} THEN Add(tail, Sub(align, excess, 32), 32) ELSE tail

\* generate.c:1097-1104: kernel_itrs recomputed, and the tail with it.
plan_recompute(p, itrs) ==
  [p EXCEPT !.kernel_itrs = itrs.q,
            !.trap = itrs.trap,
            !.borrow = WordLess(p.kernel_ideal_size, p.scalar_tail),
            !.scalar_tail =
              IF itrs.q # {}
              THEN tail_extend(p.scalar_tail, p.kernel_align,
                               Mod(Add(Mul(p.block_size, itrs.q, 32), p.scalar_tail, 32),
                                   p.kernel_align, 32))
              ELSE p.scalar_tail]

\* generate.c:1095-1105
plan_kernel(p, zero) ==
  IF p.kernel_itrs # {} /\ p.scalar_tail # {}
  THEN plan_recompute(p, div_block(Sub(p.kernel_ideal_size, p.scalar_tail, 32),
                                   p.block_size, zero))
  ELSE p

\* generate.c:1067-1094
plan_itrs(ap, V, nat, block, align, ideal, itrs, zero) ==
  IF itrs.trap
  THEN [block_size |-> block, kernel_align |-> align, kernel_ideal_size |-> ideal,
        kernel_itrs |-> {}, scalar_tail |-> {}, borrow |-> FALSE, trap |-> TRUE]
  ELSE plan_kernel([block_size |-> block, kernel_align |-> align,
                    kernel_ideal_size |-> ideal, kernel_itrs |-> itrs.q,
                    scalar_tail |-> tail_first(ap, V, nat, itrs.q),
                    borrow |-> FALSE, trap |-> FALSE], zero)

plan_sizes(ap, V, nat, block, align, ideal, zero) ==
  plan_itrs(ap, V, nat, block, align, ideal, div_block(ideal, block, zero), zero)

\* generate.c:1061-1105: the sizes of the phase ap.  borrow tells that line
\* 1097 subtracted more than kernel_ideal_size, trap that a division by
\* zero ended the program.
kernel_plan(ap, V, nat, zero) ==
  plan_sizes(ap, V, nat, block_size(ap, V, nat), kernel_align(ap, V, nat),
             kernel_ideal_size(ap, kernel_align(ap, V, nat)), zero)

(***************************************************************************)
(* The emitter of crc32_impl: generate.c:853-1352.  The emitted function   *)
(* is kept statement by statement: a statement is the record of the C text *)
(* that one put_lit / put_fmt group writes, op naming the form of the text *)
(* and a, b, c, e the numbers, names and expressions formatted into it.    *)
(* A buffer is the sequence of what was put into it; a child buffer put    *)
(* with put_new_sbuf or put_deferred_sbuf is the item DEFERRED, which      *)
(* carries the child's content.                                            *)
(*                                                                         *)
(* A constant printed as xnmodp(n) is kept as its exponent n, so the       *)
(* emitted text is the same for every polynomial.  The numbers of the      *)
(* emitter are uint32_t; for the configurations of the model they stay far *)
(* below 2^32 and no subtraction goes below zero.                          *)
(***************************************************************************)
Stmt(op, a, b, c, e) == [op |-> op, a |-> a, b |-> b, c |-> c, e |-> e]

\* The text written only under a condition.
When(cond, text) == IF cond THEN text ELSE <<>>

\* The texts of a loop, one after the other.
RECURSIVE FlatRange(_, _, _)
FlatRange(texts, lo, hi) ==
  IF lo > hi THEN <<>>
  ELSE IF lo = hi THEN texts[lo]
  ELSE FlatRange(texts, lo, (lo + hi) \div 2) \o FlatRange(texts, (lo + hi) \div 2 + 1, hi)

FlatSeq(texts) == FlatRange(texts, 1, Len(texts))

\* generate.c:46-48: FATAL ends the program; nothing is written.
FATAL_ISA == Stmt("FATAL", 0, 0, 0, <<>>)

\* generate.c:105-113: the record of a child buffer, with the child's text.
deferred(child) == Stmt("DEFERRED", 0, 0, 0, child)


\* The number of a word of the parser.
RECURSIVE WordNat(_)
WordNat(w) == IF w = {} THEN 0 ELSE Pow2(MaxBit(w)) + WordNat(w \ {MaxBit(w)})

\* generate.c:311-319: a phase, its fields read as numbers.
phase_numbers(cur) ==
  [v_acc |-> WordNat(cur.v_acc), v_load |-> WordNat(cur.v_load),
   s_acc |-> WordNat(cur.s_acc), s_load |-> WordNat(cur.s_load),
   kernel_size |-> WordNat(cur.kernel_size), use_end_ptr |-> cur.use_end_ptr # {}]

\* generate.c:889-898: "0", lhs or lhs * rhs.
emit_product(lhs, rhs) == IF rhs = 0 THEN <<"0", 0>> ELSE <<lhs, rhs>>

\* A literal number of bytes, in the form of a product.
bytes_of(k) == <<"1", k>>

\* generate.c:853-865: crc{acc} = crc_u{size}(crc{acc}, *(const T*) ...; the
\* callers write the address (buf + klen * j + off), in the tail ^ vc, and
\* what ends the call: ");" and a newline, or ")," when the statement goes
\* on (sep).
emit_scalar_fn_mem(acc, size, klen, off, vc) ==
  IF size \in {8, 4, 1}
  THEN Stmt("crc_mem", acc, size, off, [klen |-> klen, vc |-> vc, sep |-> ";"])
  ELSE Stmt("FATAL", 0, 0, 0, <<>>)

\* A comment of the emitted function: the format of its put_lit or put_fmt
\* and the number formatted into it, args being the count of the numbers.
comment(fmt, args, a) == Stmt("/*", a, args, 0, fmt)

\* generate.c:867-887: the load of one vector at base + offset.
emit_vector_load(isa, base, offset) ==
  IF isa \in {ISA_NEON, ISA_NEON_EOR3, ISA_SSE, ISA_AVX512}
    THEN [k |-> "load", base |-> base, off |-> offset, bytes |-> 16]
  ELSE IF isa = ISA_AVX512_VPCLMULQDQ
    THEN [k |-> "load", base |-> base, off |-> offset, bytes |-> 64]
  ELSE [k |-> "FATAL", base |-> base, off |-> offset, bytes |-> 0]

\* A statement around a vector load; the FATAL of the load ends the program.
load_stmt(op, reg, ld) ==
  IF ld.k = "FATAL" THEN FATAL_ISA ELSE Stmt(op, reg, 0, 0, ld)

\* generate.c:900-934: the expression that xors vc{lo} ... vc{hi-1}.
RECURSIVE emit_vc_xor_tree(_, _, _)
emit_vc_xor_tree(isa, lo, hi) ==
  IF hi - lo = 1 THEN <<"vc", lo>>
  ELSE IF hi - lo >= 3 /\ isa \in {ISA_NEON_EOR3, ISA_AVX512, ISA_AVX512_VPCLMULQDQ}
    THEN <<"xor3", emit_vc_xor_tree(isa, lo, lo + (hi - lo) \div 3),
                   emit_vc_xor_tree(isa, lo + (hi - lo) \div 3, hi - (hi - lo) \div 3),
                   emit_vc_xor_tree(isa, hi - (hi - lo) \div 3, hi)>>
  ELSE <<"xor", emit_vc_xor_tree(isa, lo, lo + (hi - lo) \div 2),
                emit_vc_xor_tree(isa, lo + (hi - lo) \div 2, hi)>>

\* generate.c:936-949: k = (x^(k*V*8+32-1), x^(k*V*8-32-1)), in every 128
\* bits of k when the vector is wider.
emit_vector_set_k(isa, k) ==
  Stmt("set_k", k * vector_bytes(isa) * 8 + 32 - 1, k * vector_bytes(isa) * 8 - 32 - 1,
       vector_bytes(isa) \div 16, <<>>)

\* generate.c:951-967: x0 = (crc0 in the low 32 bits, zero above) ^ x0; c is
\* the number of 128-bit parts of the vector, the parts above the first
\* coming from _mm512_castsi128_si512.
emit_xor_scalar_into_vector(isa) ==
  IF isa \in {ISA_NEON, ISA_NEON_EOR3, ISA_SSE, ISA_AVX512}
    THEN Stmt("xor_scalar", 0, 0, 1, <<>>)
  ELSE IF isa = ISA_AVX512_VPCLMULQDQ THEN Stmt("xor_scalar", 0, 0, 4, <<>>)
  ELSE FATAL_ISA

\* generate.c:985-989: the addend is a load when its name has more than one
\* character (buf, buf2), else the register x{offset}.
fma_addend(isa, addend, offset) ==
  IF addend # "x" THEN emit_vector_load(isa, addend, offset)
  ELSE [k |-> "reg", base |-> addend, off |-> offset, bytes |-> 0]

\* generate.c:977-996: the second part of x{reg} = x{reg} * k + addend.
fma_part2(isa, reg, ld) ==
  IF isa = ISA_NEON THEN load_stmt("fma_neon", reg, ld)
  ELSE IF isa = ISA_SSE THEN load_stmt("fma_xor2", reg, ld)
  ELSE load_stmt("fma_xor3", reg, ld)

\* generate.c:969-997: what is written to p1 and to p2.
emit_vector_fma(isa, reg, addend, offset) ==
  IF isa = ISA_NONE THEN [p1 |-> <<FATAL_ISA>>, p2 |-> <<>>]              \* 972
  ELSE [p1 |-> When(isa # ISA_NEON, <<Stmt("fma_mul", reg, 0, 0, <<>>)>>),  \* 974-976
        p2 |-> <<fma_part2(isa, reg, fma_addend(isa, addend, offset))>>]

\* generate.c:999-1012
emit_scalar_main(ap, nat) ==
  IF ap.s_load = 0 THEN <<>>
  ELSE [t \in 1..ap.s_load |->
          emit_scalar_fn_mem((t - 1) % ap.s_acc, nat,
                             emit_product("klen", (t - 1) % ap.s_acc),
                             ((t - 1) \div ap.s_acc) * nat, FALSE)]

\* A slip in tree_shuffle: the last register is not moved.
tree_shuffle_slip(d, k) ==
  Stmt("mov", 0, 0, 0, [i \in 1..(k - 2) |-> <<i * d, i * d + d>>])

\* generate.c:1025-1028: x{i*d} = x{i*d+d} for i = 1 .. n-1, one statement.
tree_shuffle(d, k) ==
  Stmt("mov", 0, 0, 0, [i \in 1..(k - 1) |-> <<i * d, i * d + d>>])

\* generate.c:1021-1029: an odd number of registers.
tree_odd(isa, d, k) ==
  emit_vector_fma(isa, 0, "x", d).p1 \o emit_vector_fma(isa, 0, "x", d).p2
    \o <<tree_shuffle(d, k - 1)>>

\* generate.c:1031-1034: the adjacent pairs of k registers, k even.
tree_pairs(isa, d, k) ==
  <<deferred(FlatSeq([i \in 1..(k \div 2) |->
               emit_vector_fma(isa, (2 * i - 2) * d, "x", (2 * i - 2) * d + d).p1]))>>
    \o FlatSeq([i \in 1..(k \div 2) |->
               emit_vector_fma(isa, (2 * i - 2) * d, "x", (2 * i - 2) * d + d).p2])

\* generate.c:1017-1035: one pass of the loop, for distance d.
tree_pass(isa, s) ==
  [d |-> s.d * 2,
   k |-> s.k \div 2,
   b |-> s.b \o <<emit_vector_set_k(isa, s.d)>>
             \o When(s.k % 2 = 1, tree_odd(isa, s.d, s.k))
             \o tree_pairs(isa, s.d, 2 * (s.k \div 2))]

\* generate.c:1014-1036
emit_vector_tree_reduce(isa, k) ==
  While(LAMBDA s : s.k > 1, LAMBDA s : tree_pass(isa, s), [d |-> 1, k |-> k, b |-> <<>>]).b

(***************************************************************************)
(* One phase of emit_main_fn: generate.c:1051-1338.  V is g_vector_bytes,  *)
(* nat is g_scalar_natural_bytes, ap the phase and d what lines 1063-1105  *)
(* and 1127 compute for it.                                                *)
(***************************************************************************)
\* generate.c:1109: (ap->v_acc != 0) as a number.
has_v_acc(ap) == IF ap.v_acc # 0 THEN 1 ELSE 0

\* (ap->s_load / ap->s_acc) * g_scalar_natural_bytes, the bytes one scalar
\* accumulator takes per iteration; read only where s_acc is not zero.
per_acc(ap, nat) == (ap.s_load \div ap.s_acc) * nat

\* generate.c:1063-1105 with vbuf of lines 1070 and 1127: the sizes of the
\* phase cur as numbers.
plan_numbers(cur, p) ==
  [block_size |-> WordNat(p.block_size), kernel_itrs |-> WordNat(p.kernel_itrs),
   scalar_tail |-> WordNat(p.scalar_tail), trap |-> p.trap,
   vbuf |-> IF cur.v_load # {} /\ cur.s_acc # {} THEN "buf2" ELSE "buf"]

phase_plan(cur, V, nat, zero) == plan_numbers(cur, kernel_plan(cur, U32(V), U32(nat), zero))

\* ptr += by;
ptr_add(ptr, by) == Stmt("ptr_add", 0, 0, 0, [ptr |-> ptr, by |-> by])

\* generate.c:1053-1059: the scalar steps up to the alignment of a vector.
phase_align(V, nat) ==
  <<Stmt(IF V = nat * 2 THEN "if_align" ELSE "while_align", V - nat, nat, 0, <<>>),
    emit_scalar_fn_mem(0, nat, emit_product("klen", 0), 0, FALSE),
    ptr_add("buf", bytes_of(nat)),
    Stmt("len_sub", nat, 0, 0, <<>>),
    Stmt("}", 0, 0, 0, <<>>)>>

\* generate.c:1107-1114
phase_open(ap, d) ==
  IF d.kernel_itrs # 0
  THEN <<Stmt("while_len", d.block_size * d.kernel_itrs + d.scalar_tail, 0, 0, <<>>)>>
       \o When(~ap.use_end_ptr /\ d.kernel_itrs # has_v_acc(ap),
               <<Stmt("kitrs", d.kernel_itrs - has_v_acc(ap), 0, 0, <<>>)>>)
  ELSE <<Stmt("if_len", d.block_size + d.scalar_tail, 0, 0, <<>>)>>

\* const char* limit = buf + blk * a + (klen or len) + c;
limit_stmt(a, base, c) == Stmt("limit", a, 0, c, base)

\* generate.c:1117-1125: scalars only, more than one accumulator.
vars_scalar(ap, d, nat) ==
  (IF d.kernel_itrs # 0
   THEN <<Stmt("klen_const", d.kernel_itrs * per_acc(ap, nat), 0, 0, <<>>)>>
   ELSE <<Stmt("klen_len", d.scalar_tail, d.block_size, per_acc(ap, nat), <<>>)>>)
  \o When(ap.use_end_ptr, <<limit_stmt(0, "klen", 0 - per_acc(ap, nat))>>)

\* generate.c:1126-1146: vectors and scalars.
vars_mixed(ap, d, V, nat) ==
  (IF d.kernel_itrs # 0
   THEN <<Stmt("blk_const", d.kernel_itrs, 0, 0, <<>>)>>
        \o When(ap.s_acc > 1 \/ d.scalar_tail = 0 \/ ap.use_end_ptr,
                <<Stmt("klen_blk", per_acc(ap, nat), 1, 0, <<>>)>>)          \* const
   ELSE <<Stmt("blk_len", d.scalar_tail, d.block_size, 0, <<>>),
          Stmt("klen_blk", per_acc(ap, nat), 0, 0, <<>>)>>)
  \o <<Stmt("buf2", 0, 0, 0,
            emit_product("klen", IF d.scalar_tail # 0 THEN 0 ELSE ap.s_acc))>>
  \o When(ap.use_end_ptr,
          <<limit_stmt(IF d.scalar_tail # 0 THEN ap.v_load * V ELSE 0, "klen",
                       0 - per_acc(ap, nat) * 2)>>)

\* generate.c:1147-1155: one kind of accumulator only.
vars_plain(ap, d) ==
  When(ap.use_end_ptr,
       IF d.kernel_itrs # 0
       THEN <<limit_stmt(0, "", (d.kernel_itrs - 1) * d.block_size)>>
       ELSE <<limit_stmt(0, "len", 0 - d.block_size)>>)

\* generate.c:1116-1159: what is put into vars before the first chunk.
vars_head(ap, d, V, nat) ==
  When(d.kernel_itrs = 0 /\ ap.use_end_ptr, <<Stmt("end", 0, 0, 0, <<>>)>>)   \* 1116
  \o (IF ap.v_load = 0 /\ ap.s_acc > 1 THEN vars_scalar(ap, d, nat)
      ELSE IF ap.v_load # 0 /\ ap.s_acc # 0 THEN vars_mixed(ap, d, V, nat)
      ELSE vars_plain(ap, d))
  \o [i \in 1..(ap.s_acc - 1) |-> Stmt("crc_decl", i, 0, 0, <<>>)]          \* 1157-1159

\* generate.c:1236-1241: the accumulators that are shifted; the last one is
\* left out when there is a scalar tail.
vc_count(ap, d) == IF d.scalar_tail # 0 THEN ap.s_acc - 1 ELSE ap.s_acc

\* A slip in has_merge: one scalar accumulator beside vector loads is not
\* merged.
has_merge_slip(ap) == ap.s_acc > 1

\* generate.c:1228: the scalar accumulators are merged.
has_merge(ap) == ap.s_acc > 1 \/ (ap.v_load # 0 /\ ap.s_acc # 0)

\* generate.c:1241, 1260 and 1283: what is put into vars later on.
vars_late(isa, ap, d) ==
  When(has_merge(ap),
       [i \in 1..vc_count(ap, d) |-> Stmt("vc_decl", i - 1, 0, 0, <<>>)]
       \o <<Stmt("vc64_decl", 0, 0, 0, <<>>)>>)
  \o When(ap.v_load # 0 /\ isa = ISA_AVX512_VPCLMULQDQ, <<Stmt("z0_decl", 0, 0, 0, <<>>)>>)

\* generate.c:1174-1179 and 1205-1210: one round of FMAs, the loads at
\* (i + j) * V for the accumulators j; p1 is a new child of b.
fma_round(isa, ap, d, V, i) ==
  <<deferred(FlatSeq([j \in 1..ap.v_acc |->
               emit_vector_fma(isa, j - 1, d.vbuf, (i + j - 1) * V).p1]))>>
  \o FlatSeq([j \in 1..ap.v_acc |->
               emit_vector_fma(isa, j - 1, d.vbuf, (i + j - 1) * V).p2])

\* The rounds i = first * v_acc, (first + 1) * v_acc, ... below v_load.
fma_rounds(isa, ap, d, V, first) ==
  IF ap.v_acc = 0 THEN <<>>
  ELSE FlatSeq([r \in 1..(ap.v_load \div ap.v_acc - first) |->
                  fma_round(isa, ap, d, V, (r - 1 + first) * ap.v_acc)])

\* generate.c:1168-1183: after the declarations of the accumulators.
first_fold(isa, ap, d, V) ==
  <<Stmt("k_decl", 0, 0, 0, <<>>), emit_vector_set_k(isa, ap.v_acc)>>
  \o When(ap.s_load = 0 \/ d.scalar_tail # 0,
          <<emit_xor_scalar_into_vector(isa)>>
          \o When(d.scalar_tail # 0, <<Stmt("crc_zero", 0, 0, 0, <<>>)>>))
  \o fma_rounds(isa, ap, d, V, 1)
  \o <<ptr_add(d.vbuf, bytes_of(ap.v_load * V))>>
  \o When(d.kernel_itrs = 0 /\ ~ap.use_end_ptr, <<Stmt("len_sub", d.block_size, 0, 0, <<>>)>>)
  \o When(d.scalar_tail # 0, <<ptr_add("buf", <<"blk", ap.v_load * V>>)>>)

\* generate.c:1160-1183
phase_first(isa, ap, d, V) ==
  When(ap.v_acc # 0, <<comment("/* First vector chunk. */\n", 0, 0)>>)          \* 1161
  \o [i \in 1..ap.v_acc |->
     load_stmt("x_decl", i - 1, emit_vector_load(isa, d.vbuf, (i - 1) * V))]
  \o When(ap.v_acc # 0, first_fold(isa, ap, d, V))

\* generate.c:1187-1198: the text of loop_cond.
loop_cond(ap, d) ==
  IF ap.use_end_ptr THEN Stmt("cond_ptr", 0, 0, 0, <<>>)
  ELSE IF d.kernel_itrs # 0 THEN Stmt("cond_kitrs", 0, 0, 0, <<>>)
  ELSE Stmt("cond_len", d.block_size + d.scalar_tail, 0, 0, <<>>)

\* generate.c:1199-1203: the condition goes before the body.
loop_is_while(ap, d) == d.kernel_itrs = 0 /\ ap.v_load # 0

\* generate.c:1205-1214: the body of the main loop.
loop_body(isa, ap, d, V, nat) ==
  fma_rounds(isa, ap, d, V, 0)
  \o emit_scalar_main(ap, nat)
  \o When(ap.s_load # 0, <<ptr_add("buf", bytes_of(per_acc(ap, nat)))>>)
  \o When(ap.v_load # 0, <<ptr_add(d.vbuf, bytes_of(ap.v_load * V))>>)
  \o When(d.kernel_itrs = 0 /\ ~ap.use_end_ptr, <<Stmt("len_sub", d.block_size, 0, 0, <<>>)>>)

\* generate.c:1184-1222
phase_loop(isa, ap, d, V, nat) ==
  When(d.kernel_itrs = 0 \/ d.kernel_itrs # has_v_acc(ap),
       <<comment("/* Main loop. */\n", 0, 0)>>                                  \* 1186
       \o (IF loop_is_while(ap, d)
        THEN <<deferred(<<loop_cond(ap, d)>>), Stmt("{", 0, 0, 0, <<>>)>>
        ELSE <<Stmt("do", 0, 0, 0, <<>>)>>)
       \o loop_body(isa, ap, d, V, nat)
       \o <<Stmt("}", IF loop_is_while(ap, d) THEN 0 ELSE 1, 0, 0, <<>>)>>   \* 1215-1216
       \o When(~loop_is_while(ap, d),
               <<deferred(<<loop_cond(ap, d)>>), Stmt(";", 0, 0, 0, <<>>)>>))

\* A constant printed as xnmodp(amount * 8 - 33).
shift_const(amount) == [k |-> "const", x |-> amount * 8 - 33]

\* A number of bytes computed by the emitted code: klen + add + blk * blk.
shift_bytes(klen, add, blk) == [k |-> "bytes", klen |-> klen, add |-> add, blk |-> blk]

\* A slip in vc_stmt: the chain itself is counted among those behind it.
vc_stmt_slip(ap, d, V, nat, i) ==
  IF d.kernel_itrs # 0
  THEN Stmt("vc_set", i, 0, 0,
            shift_const(d.kernel_itrs * per_acc(ap, nat) * (ap.s_acc - i)
                        + (IF d.scalar_tail # 0 THEN d.scalar_tail
                           ELSE d.kernel_itrs * ap.v_load * V)))
  ELSE Stmt("vc_set", i, 0, 0,
            shift_bytes(emit_product("klen", ap.s_acc - i), d.scalar_tail,
                        IF d.scalar_tail = 0 /\ ap.v_load # 0
                        THEN ap.v_load * V ELSE 0))

\* generate.c:1242-1257: vc{i} = clmul_scalar(crc{i}, constant) for a fixed
\* kernel, else vc{i} = crc_shift(crc{i}, bytes).
vc_stmt(ap, d, V, nat, i) ==
  IF d.kernel_itrs # 0
  THEN Stmt("vc_set", i, 0, 0,
            shift_const(d.kernel_itrs * per_acc(ap, nat) * (ap.s_acc - 1 - i)   \* 1244
                        + (IF d.scalar_tail # 0 THEN d.scalar_tail
                           ELSE d.kernel_itrs * ap.v_load * V)))                \* 1245
  ELSE Stmt("vc_set", i, 0, 0,
            shift_bytes(emit_product("klen", ap.s_acc - 1 - i),                  \* 1250
                        d.scalar_tail,                                           \* 1251-1252
                        IF d.scalar_tail = 0 /\ ap.v_load # 0
                        THEN ap.v_load * V ELSE 0))                              \* 1253-1254

\* generate.c:1260-1267: vc = 0, or vc = the low 64 bits of the xor tree.
vc_merge(isa, ap, d) ==
  IF ap.s_acc = (IF d.scalar_tail # 0 THEN 1 ELSE 0)
  THEN Stmt("vc_zero", 0, 0, 0, <<>>)
  ELSE Stmt("vc_tree", 0, 0, 0,
            emit_vc_xor_tree(isa, 0, ap.s_acc - (IF d.scalar_tail # 0 THEN 1 ELSE 0)))

\* generate.c:1228-1268: what is put into b.
phase_merge(isa, ap, d, V, nat) ==
  When(has_merge(ap),
       When(ap.v_load # 0,
            <<comment("/* Final scalar chunk. */\n", 0, 0)>>                    \* 1231
            \o emit_scalar_main(ap, nat)                                        \* 1232
            \o When(d.scalar_tail # 0, <<ptr_add("buf", bytes_of(per_acc(ap, nat)))>>))
       \o [i \in 1..vc_count(ap, d) |-> vc_stmt(ap, d, V, nat, i - 1)]
       \o <<vc_merge(isa, ap, d)>>)

\* generate.c:1276-1285: x^415, x^351 ... x^95 in the low 32 bits of the
\* first six 64-bit lanes of k, zero in the last two; y0 = x0 * k by lanes,
\* z0 = the xor of the four 128-bit parts.
reduce_512 ==
  <<comment("/* Reduce 512 bits to 128 bits. */\n", 0, 0),
    Stmt("k512", 0, 0, 0, [i \in 1..6 |-> 415 - 64 * (i - 1)]),
    Stmt("mul512", 0, 0, 0, <<>>),
    Stmt("xor512", 0, 0, 0, <<>>),
    Stmt("z0_fold", 0, 0, 0, <<>>),
    Stmt("z0_last", 0, 0, 0, <<>>)>>

\* generate.c:1289-1300: vc ^= the low 64 bits of the shifted
\* crc_u64(crc_u64(0, lane 0 of x0), lane 1 of x0).
fold_tail(ap, d, nat, x0) ==
  IF d.kernel_itrs # 0
  THEN Stmt("vc_fold", 0, 0, 0,
            [x0 |-> x0, by |-> shift_const(d.kernel_itrs * ap.s_load * nat + d.scalar_tail)])
  ELSE Stmt("vc_fold", 0, 0, 0,
            [x0 |-> x0, by |-> shift_bytes(<<"klen", ap.s_acc>>, d.scalar_tail, 0)])

\* generate.c:1288-1305
reduce_128(ap, d, nat, x0) ==
  <<comment("/* Reduce 128 bits to 32 bits, and multiply by x^32. */\n", 0, 0)>>
  \o IF d.scalar_tail # 0 THEN <<fold_tail(ap, d, nat, x0)>>
  ELSE <<Stmt("crc_lane0", 0, 0, 0, [x0 |-> x0, vc |-> FALSE]),
         Stmt("crc_lane1", 0, 0, 0, [x0 |-> x0, vc |-> ap.s_load # 0])>>

\* generate.c:1269-1306
phase_final(isa, ap, d, nat) ==
  When(ap.v_load # 0,
       IF isa = ISA_AVX512_VPCLMULQDQ
       THEN reduce_512 \o reduce_128(ap, d, nat, "z0")
       ELSE reduce_128(ap, d, nat, "x0"))

\* generate.c:1313-1318: the natural words of the tail, vc xored into the
\* last one.
tail_words(d, nat) ==
  FlatSeq([i \in 1..((d.scalar_tail - 1) \div nat) |->
             <<[emit_scalar_fn_mem(0, nat, emit_product("klen", 0), 0, FALSE)
                  EXCEPT !.e.sep = ","],
               ptr_add("buf", bytes_of(nat))>>])
  \o <<[emit_scalar_fn_mem(0, nat, emit_product("klen", 0), 0, TRUE) EXCEPT !.e.sep = ","],
       ptr_add("buf", bytes_of(nat))>>

\* generate.c:1307-1322
phase_tail(ap, d, nat) ==
  IF d.scalar_tail # 0
  THEN <<comment("/* Final %u bytes. */\n", 1, d.scalar_tail)>>                 \* 1308
       \o When(ap.s_acc > 1,
            <<ptr_add("buf", emit_product("klen", ap.s_acc - 1)),              \* 1310
              Stmt("crc_copy", ap.s_acc - 1, 0, 0, <<>>)>>)                     \* 1311
       \o tail_words(d, nat)
       \o When(d.kernel_itrs = 0 /\ ~ap.use_end_ptr,
               <<Stmt("len_sub", d.scalar_tail, 0, 0, <<>>)>>)                  \* 1319
  ELSE When(ap.v_load # 0 /\ ap.s_load # 0,
            <<Stmt("buf_set", 0, 0, 0, d.vbuf)>>)                               \* 1321

\* generate.c:1323-1337
phase_close(ap, d) ==
  (IF d.kernel_itrs # 0
   THEN <<Stmt("len_sub", d.kernel_itrs * d.block_size + d.scalar_tail, 0, 0, <<>>)>>
   ELSE When(ap.use_end_ptr, <<Stmt("len_end", 0, 0, 0, <<>>)>>))
  \o <<Stmt("}", 0, 0, 0, <<>>)>>

\* generate.c:1326-1328 and 1333-1335: the alignment the phase leaves.
phase_alignment(d, V, nat, ca) ==
  IF d.kernel_itrs # 0
  THEN (IF (d.kernel_itrs * d.block_size + d.scalar_tail) % V # 0 THEN nat ELSE ca)
  ELSE (IF d.block_size % V # 0 \/ d.scalar_tail % V # 0 THEN nat ELSE ca)

\* generate.c:1107-1337: the block of a phase.
phase_block(isa, ap, d, V, nat) ==
  phase_open(ap, d)
  \o <<deferred(vars_head(ap, d, V, nat) \o vars_late(isa, ap, d))>>           \* 1115
  \o phase_first(isa, ap, d, V)
  \o phase_loop(isa, ap, d, V, nat)
  \o When(ap.v_acc > 1,
          <<comment("/* Reduce x0 ... x%u to just x0. */\n", 1, ap.v_acc - 1)>>  \* 1225
          \o emit_vector_tree_reduce(isa, ap.v_acc))                            \* 1226
  \o phase_merge(isa, ap, d, V, nat)
  \o phase_final(isa, ap, d, nat)
  \o phase_tail(ap, d, nat)
  \o phase_close(ap, d)

\* generate.c:1051: the phase raises the alignment.
raises_alignment(ap, V, ca) == ap.v_acc # 0 /\ V > ca

\* generate.c:1067 and 1097: a division by zero that traps ends the program.
TRAP == Stmt("TRAP", 0, 0, 0, <<>>)

\* generate.c:1061-1338, ca being current_alignment at line 1061 and block
\* the condition of line 1061.
phase_body(isa, ap, d, block, V, nat, s, ca) ==
  IF block /\ d.trap
  THEN [i |-> s.i + 1, ca |-> ca, b |-> s.b \o <<TRAP>>]
  ELSE IF block
  THEN [i |-> s.i + 1, ca |-> phase_alignment(d, V, nat, ca),
        b |-> s.b \o When(raises_alignment(ap, V, s.ca), phase_align(V, nat))
                  \o phase_block(isa, ap, d, V, nat)]
  ELSE [i |-> s.i + 1, ca |-> ca,
        b |-> s.b \o When(raises_alignment(ap, V, s.ca), phase_align(V, nat))]

\* generate.c:1050-1339: one pass of the loop over the phases.
emit_phase(isa, cur, ap, V, nat, zero, s) ==
  phase_body(isa, ap, phase_plan(cur, V, nat, zero), has_block(cur), V, nat, s,
             IF raises_alignment(ap, V, s.ca) THEN V ELSE s.ca)                 \* 1052

\* generate.c:1042-1049: the head of the function and the loop that aligns
\* buf to the natural word.
main_head(nat) ==
  <<Stmt("fn", 0, 0, 0, <<>>), Stmt("not", 0, 0, 0, <<>>)>>
  \o When(nat > 1, <<Stmt("for_align", nat - 1, 0, 0, <<>>),
                     Stmt("byte", 0, 0, 0, <<>>),
                     Stmt("}", 0, 0, 0, <<>>)>>)

\* generate.c:1340-1350: the loop over natural words, the loop over bytes
\* and the return.
main_foot(nat) ==
  <<Stmt("for_len", nat, 0, 0, <<>>),
    emit_scalar_fn_mem(0, nat, emit_product("klen", 0), 0, FALSE),
    Stmt("}", 0, 0, 0, <<>>)>>
  \o When(nat > 1, <<Stmt("for_bytes", 0, 0, 0, <<>>),
                     Stmt("byte", 0, 0, 0, <<>>),
                     Stmt("}", 0, 0, 0, <<>>)>>)
  \o <<Stmt("ret", 0, 0, 0, <<>>), Stmt("}", 0, 0, 0, <<>>)>>

\* generate.c:1038-1350: the buffer b.
main_buffer(isa, algo, V, nat, zero) ==
  While(LAMBDA s : s.i <= Len(algo) /\ (s.b = <<>> \/ s.b[Len(s.b)].op # "TRAP"),
        LAMBDA s : emit_phase(isa, algo[s.i], phase_numbers(algo[s.i]), V, nat, zero, s),
        [i |-> 1, ca |-> nat, b |-> main_head(nat)]).b
  \o main_foot(nat)

\* generate.c:255-293: a buffer is written with every child in the place
\* of its record.
RECURSIVE flush_stmts(_)
flush_stmts(b) ==
  FlatSeq([i \in 1..Len(b) |->
             IF b[i].op = "DEFERRED" THEN flush_stmts(b[i].e) ELSE <<b[i]>>])

\* What main writes: nothing when a FATAL ended the program.
main_written(text) ==
  IF \E i \in 1..Len(text) : text[i].op = "TRAP"
  THEN [fatal |-> "division by zero", text |-> <<>>]
  ELSE IF \E i \in 1..Len(text) : text[i].op = "FATAL"
  THEN [fatal |-> "bad ISA", text |-> <<>>]
  ELSE [fatal |-> "", text |-> text]

\* generate.c:1038-1352, as flushed by line 1371.
emit_main_fn(isa, algo, zero) ==
  main_written(flush_stmts(main_buffer(isa, algo, vector_bytes(isa),
                                       scalar_natural_bytes(isa), zero)))

(***************************************************************************)
(* The helpers emit_main_fn asks for.  Every need_ call of the emitter is  *)
(* made by the code that writes one statement: a request is kept with the  *)
(* statement, and the requests are made in the order of the statements.    *)
(***************************************************************************)
Need(kind, arg) == [kind |-> kind, arg |-> arg]

\* generate.c:904-911: the tree has a three-way xor.
RECURSIVE has_xor3(_)
has_xor3(e) ==
  IF e[1] = "vc" THEN FALSE
  ELSE IF e[1] = "xor3" THEN TRUE
  ELSE has_xor3(e[2]) \/ has_xor3(e[3])

\* The need_ calls made where the statement t is written.
stmt_needs(isa, t) ==
  CASE t.op = "crc_mem" -> <<Need("crc_scalar", t.b)>>                         \* 854
    [] t.op = "byte" -> <<Need("crc_scalar", 1)>>                              \* 1045, 1344
    [] t.op \in {"fma_neon", "fma_xor2", "fma_xor3"} ->
         <<Need("clmul_fn", "lo"), Need("clmul_fn", "hi")>>                     \* 972-973
         \o When(isa \in {ISA_AVX512, ISA_AVX512_VPCLMULQDQ}, <<Need("immintrin_h", 0)>>)  \* 994
    [] t.op = "vc_tree" ->
         When(has_xor3(t.e) /\ isa # ISA_NEON_EOR3, <<Need("immintrin_h", 0)>>)  \* 910
    [] t.op = "vc_set" ->
         <<IF t.e.k = "const" THEN Need("clmul_scalar", 0) ELSE Need("crc_shift", 0)>>   \* 1247, 1249
    [] t.op = "k512" ->
         <<Need("immintrin_h", 0), Need("clmul_fn", "lo"), Need("clmul_fn", "hi")>>      \* 1273-1275
    [] t.op = "vc_fold" ->
         <<IF t.e.by.k = "const" THEN Need("clmul_scalar", 0) ELSE Need("crc_shift", 0)>> \* 1295, 1297
    [] t.op = "crc_lane0" -> <<Need("crc_scalar", 8)>>                         \* 1302
    [] OTHER -> <<>>

\* The call of the need_ function of a request.
need_call(h, isa, r) ==
  CASE r.kind = "crc_scalar" -> need_crc_scalar(h, r.arg, isa)
    [] r.kind = "clmul_fn" -> need_clmul_fn(h, r.arg, isa)
    [] r.kind = "clmul_scalar" -> need_clmul_scalar(h, isa)
    [] r.kind = "crc_shift" -> need_crc_shift(h, isa)
    [] r.kind = "immintrin_h" -> need_h(h, "immintrin")

need_calls(h, isa, rs) ==
  While(LAMBDA s : s.i <= Len(rs),
        LAMBDA s : [i |-> s.i + 1, h |-> need_call(s.h, isa, rs[s.i])],
        [i |-> 1, h |-> h]).h

\* generate.c:1038-1351: g_out and g_includes after emit_main_fn wrote text;
\* the function itself is the last thing put into g_out (1351).
main_helpers(h, isa, text) ==
  [need_calls(h, isa, FlatSeq([i \in 1..Len(text) |-> stmt_needs(isa, text[i])]))
     EXCEPT !.g_out = Append(@, Define("crc32_impl", isa))]

(***************************************************************************)
(* What the text of emit_vector_tree_reduce does to the registers.  A      *)
(* register holds the chunks it stands for, in order (x{i} holds chunk i   *)
(* at first), and the number of vectors it was multiplied for by           *)
(* clmul_lo / clmul_hi since its last addition.                            *)
(***************************************************************************)
Reg(chunks, mul) == [chunks |-> chunks, mul |-> mul]

\* generate.c:937-938: the number of vectors the constants of k stand for:
\* k1 = x^(d * V * 8 + 32 - 1).
set_k_distance(t, V) == (t.a - 31) \div (V * 8)

\* The chunks of the addend are d consecutive chunks that follow the chunks
\* of the target, and the target was multiplied for d vectors.
fold_fits(target, addend, d) ==
  /\ target.chunks # <<>> /\ addend.chunks # <<>>
  /\ target.mul = d /\ addend.mul = 0
  /\ Len(addend.chunks) = d
  /\ \A j \in 1..Len(addend.chunks) :
       addend.chunks[j] = target.chunks[Len(target.chunks)] + j

\* generate.c:976: y = clmul_lo(x, k), x = clmul_hi(x, k)
tree_mul(s, reg) ==
  [s EXCEPT !.x[reg] = Reg(s.x[reg].chunks, s.k)]

\* generate.c:979-995: x = x ^ y ^ addend, the addend being a register.
tree_add(s, reg, from) ==
  [s EXCEPT !.ok = s.ok /\ fold_fits(s.x[reg], s.x[from], s.k),
            !.folds = Append(s.folds, <<s.k, reg, from>>),
            !.x[reg] = Reg(s.x[reg].chunks \o s.x[from].chunks, 0)]

\* generate.c:1026: x{a} = x{b}, the assignments of one statement in order.
tree_mov(s, moves) ==
  Iter(LAMBDA r : [i |-> r.i + 1,
                   s |-> [r.s EXCEPT !.x[moves[r.i][1]] = r.s.x[moves[r.i][2]]]],
       [i |-> 1, s |-> s], Len(moves)).s

\* One statement of the text.
tree_stmt(s, t, V) ==
  CASE t.op = "set_k" -> [s EXCEPT !.k = set_k_distance(t, V)]
    [] t.op = "fma_mul" -> tree_mul(s, t.a)
    [] t.op \in {"fma_xor2", "fma_xor3"} -> tree_add(s, t.a, t.e.off)
    [] t.op = "fma_neon" -> tree_add(tree_mul(s, t.a), t.a, t.e.off)
    [] t.op = "mov" -> tree_mov(s, t.e)
    [] OTHER -> [s EXCEPT !.ok = FALSE]

\* The registers x0 .. x{count-1} after the text; the registers beyond are
\* those the text must not read.
tree_run(text, count, V) ==
  Iter(LAMBDA r : [i |-> r.i + 1, s |-> tree_stmt(r.s, text[r.i], V)],
       [i |-> 1,
        s |-> [k |-> 0, ok |-> TRUE, folds |-> <<>>,
               x |-> [j \in 0..(2 * count) |-> IF j < count THEN Reg(<<j>>, 0) ELSE Reg(<<>>, 0)]]],
       Len(text)).s

(***************************************************************************)
(* The characters of the emitted file: generate.c:568-1352.  What the      *)
(* helpers and the statements of crc32_impl stand for is written out with  *)
(* the format strings of the generator, through put_fmt.  cx is what the   *)
(* texts depend on: the ISA, the polynomial, the names of the scalar       *)
(* functions, the planes of the table and the bytes never assigned that    *)
(* put_u32 may copy.  A text is kept as the sequence of the calls that put *)
(* it into a buffer, and becomes characters when the buffers are flushed.  *)
(***************************************************************************)
\* The characters of a C string literal.
Chars(s) == [i \in 1..Len(s) |-> SubSeq(s, i, i)]

\* generate.c:97: put_lit(b, s)
Lit(s) == <<[k |-> "lit", s |-> s, args |-> <<>>]>>

\* generate.c:91-95: put_str(b, s) of the characters s.
Str(s) == <<[k |-> "str", s |-> s, args |-> <<>>]>>

\* The characters a buffer holds.
sbuf_chars(sb) == [j \in 1..sb.size |-> sb.base[j].c]

\* generate.c:143-170: put_fmt(b, fmt, ...)
Text(cx, fmt, args) == <<[k |-> "fmt", s |-> fmt, args |-> args]>>

\* What a call adds to its buffer.
put_chars(cx, p) ==
  IF p.k = "fmt" THEN sbuf_chars(put_fmt(sbuf_new, Chars(p.s), p.args, cx.junk).sb)
  ELSE IF p.k = "lit" THEN Chars(p.s)
  ELSE p.s

\* generate.c:255-293: the characters of the calls, in their order.
flushed_chars(cx, puts) == FlatSeq([i \in 1..Len(puts) |-> put_chars(cx, puts[i])])

\* A uint32_t of the emitter, as the halves the formatter takes.
u32_nat(k) == u32(k \div Half, k % Half)
u32_word(w) == u32(WordNat(Shr(And(w, Word32), 16)), WordNat(And(w, 0..15)))

Context(isa, poly, h, junk) ==
  [isa |-> isa, poly |-> poly, fn |-> h.scalar_fn, planes |-> h.g_table_planes, junk |-> junk]

\* generate.c:747-769: g_vec16_type, g_vec16_lane8_fn and g_vector_type;
\* the first two stay NULL for ISA_NONE.
vec16_type(isa) ==
  IF is_neon(isa) THEN Chars("uint64x2_t")
  ELSE IF isa = ISA_NONE THEN NULL_STR
  ELSE Chars("__m128i")

vec16_lane8_fn(isa) ==
  IF is_neon(isa) THEN Chars("vgetq_lane_u64")
  ELSE IF isa = ISA_NONE THEN NULL_STR
  ELSE Chars("_mm_extract_epi64")

vector_type(isa) ==
  IF isa = ISA_AVX512_VPCLMULQDQ THEN Chars("__m512i") ELSE vec16_type(isa)

\* generate.c:579-584: the line of a header.
header_text(cx, name) == Lit("#include <") \o Str(Chars(name)) \o Lit(".h>\n")

\* generate.c:595-601: what emit_standard_preprocessor puts into g_out.
preprocessor_text ==
  Lit("\n#if defined(_MSC_VER)\n")
  \o Lit("#define CRC_AINLINE static __forceinline\n")
  \o Lit("#define CRC_ALIGN(n) __declspec(align(n))\n")
  \o Lit("#else\n")
  \o Lit("#define CRC_AINLINE static __inline __attribute__((always_inline))\n")
  \o Lit("#define CRC_ALIGN(n) __attribute__((aligned(n)))\n")
  \o Lit("#endif\n")
  \o Lit("#define CRC_EXPORT extern\n\n")

\* generate.c:609-615: entry j of plane i, and what follows it.
table_entry(cx, i, j) ==
  Text(cx, "0x%x%s",
       <<u32_word(ReduceN(U32(j), cx.poly, (i + 1) * 8)),
         IF j + 1 >= 256 THEN <<>> ELSE IF (j + 1) % 6 # 0 THEN Chars(", ") ELSE Chars(",\n")>>)

\* generate.c:607-620: one plane.
table_plane(cx, i) ==
  Lit("{\n")
  \o FlatSeq([j \in 1..256 |-> table_entry(cx, i, j - 1)])
  \o (IF i + 1 < cx.planes THEN Lit("},") ELSE Lit("\n}};\n\n"))

\* generate.c:604-624: run when g_out is flushed, with the planes asked for
\* by then.
generate_table(cx) ==
  Text(cx, "[%u][256] = {", <<u32_nat(cx.planes)>>)
  \o FlatSeq([i \in 1..cx.planes |-> table_plane(cx, i - 1)])

\* generate.c:630-631
crc_table_text(cx) ==
  Text(cx, "static const uint32_t %s", <<Chars("g_crc_table")>>) \o generate_table(cx)

\* generate.c:640: lo = which[0] == 'l'
clmul_lo_flag(which) == IF which = "lo" THEN 1 ELSE 0

\* generate.c:648, 656: &"2"[lo]
pmull_suffix(which) == IF which = "lo" THEN <<>> ELSE Chars("2")

\* generate.c:645-668: the text need_clmul_fn(which, isa) puts into g_out;
\* g_vector_type is that of g_isa.
clmul_fn_text(cx, which, isa) ==
  IF isa = ISA_NEON
  THEN Text(cx, "CRC_AINLINE %s clmul_%s_e(%s a, %s b, %s c) {\n",
            <<vector_type(cx.isa), Chars(which), vector_type(cx.isa), vector_type(cx.isa),
              vector_type(cx.isa)>>)
       \o Text(cx, "%s r;\n", <<vector_type(cx.isa)>>)
       \o Text(cx, "__asm(\"pmull%s %%0.1q, %%2.%ud, %%3.%ud\\neor %%0.16b, %%0.16b, %%1.16b\\n\" : \"=w\"(r), \"+w\"(c) : \"w\"(a), \"w\"(b));\n",
               <<pmull_suffix(which), u32_nat(2 - clmul_lo_flag(which)),
                 u32_nat(2 - clmul_lo_flag(which))>>)
       \o Lit("return r;\n")
       \o Lit("}\n\n")
  ELSE IF isa = ISA_NEON_EOR3
  THEN Text(cx, "CRC_AINLINE %s clmul_%s(%s a, %s b) {\n",
            <<vector_type(cx.isa), Chars(which), vector_type(cx.isa), vector_type(cx.isa)>>)
       \o Text(cx, "%s r;\n", <<vector_type(cx.isa)>>)
       \o Text(cx, "__asm(\"pmull%s %%0.1q, %%1.%ud, %%2.%ud\\n\" : \"=w\"(r) : \"w\"(a), \"w\"(b));\n",
               <<pmull_suffix(which), u32_nat(2 - clmul_lo_flag(which)),
                 u32_nat(2 - clmul_lo_flag(which))>>)
       \o Lit("return r;\n")
       \o Lit("}\n\n")
  ELSE IF isa \in {ISA_SSE, ISA_AVX512}
  THEN Text(cx, "#define clmul_%s(a, b) (_mm_clmulepi64_si128((a), (b), %u))%s\n",
            <<Chars(which), u32_nat(17 * (1 - clmul_lo_flag(which))),
              IF which = "lo" THEN <<>> ELSE Chars("\n")>>)
  ELSE Text(cx, "#define clmul_%s(a, b) (_mm512_clmulepi64_epi128((a), (b), %u))%s\n",
            <<Chars(which), u32_nat(17 * (1 - clmul_lo_flag(which))),
              IF which = "lo" THEN <<>> ELSE Chars("\n")>>)

\* generate.c:698-711 and 724-737: the body of crc_u32 (size 4, q =
\* xndivp(63)) or crc_u64 (size 8, q = xndivp(95)) over the carry-less
\* multiplication of the ISA.
barrett_text(cx, size, q) ==
  IF is_neon(cx.isa)
  THEN Lit("uint64x2_t a = vmovq_n_u64(crc ^ val);\n")
       \o Text(cx, "a = clmul_lo(a, vmovq_n_u64(0x%x%xull));\n",
               <<u32_word(Shr(q, 32)), u32_word(q)>>)
       \o Text(cx, "a = clmul_lo(a, vmovq_n_u64(0x%x%xull));\n",
               <<u32_word(Shr(cx.poly, 31)), u32_word(Or(Shl(cx.poly, 1, 32), {0}))>>)
       \o Lit("return vgetq_lane_u32(vreinterpretq_u32_u64(a), 2);\n")
  ELSE Text(cx, "__m128i k = _mm_setr_epi32(0x%x, 0x%x, 0x%x, %u);\n",
            <<u32_word(q), u32_word(Shr(q, 32)), u32_word(Or(Shl(cx.poly, 1, 32), {0})),
              u32_word(Shr(cx.poly, 31))>>)
       \o (IF size = 4 THEN Lit("__m128i a = _mm_cvtsi32_si128(crc ^ val);\n")
           ELSE Lit("__m128i a = _mm_cvtsi64_si128(crc ^ val);\n"))
       \o Lit("__m128i b = _mm_clmulepi64_si128(a, k, 0x00);\n")
       \o Lit("__m128i c = _mm_clmulepi64_si128(b, k, 0x10);\n")
       \o Lit("return _mm_extract_epi32(c, 2);\n")

\* generate.c:685-743: the buffer b of need_crc_scalar(size).
crc_scalar_text(cx, size) ==
  IF size = 1
  THEN Text(cx, "CRC_AINLINE uint32_t %s(uint32_t crc, uint8_t val) {\n", <<Chars(cx.fn[1])>>)
       \o Text(cx, "return (crc >> 8) ^ %s[0][(crc & 0xFF) ^ val];\n", <<Chars("g_crc_table")>>)
       \o Lit("}\n\n")
  ELSE IF size = 4
  THEN Text(cx, "CRC_AINLINE uint32_t %s(uint32_t crc, uint32_t val) {\n", <<Chars(cx.fn[4])>>)
       \o (IF cx.isa = ISA_NONE
           THEN Lit("crc ^= val;\n")
                \o Text(cx, "return %s[0][crc >>  24] ^ %s[1][(crc >> 16) & 0xFF] ^\n",
                        <<Chars("g_crc_table"), Chars("g_crc_table")>>)
                \o Text(cx, "       %s[3][crc & 0xFF] ^ %s[2][(crc >>  8) & 0xFF];\n",
                        <<Chars("g_crc_table"), Chars("g_crc_table")>>)
           ELSE barrett_text(cx, 4, xndivp(63, cx.poly)))
       \o Lit("}\n\n")
  ELSE Text(cx, "CRC_AINLINE uint32_t %s(uint32_t crc, uint64_t val) {\n", <<Chars(cx.fn[8])>>)
       \o (IF cx.isa = ISA_NONE
           THEN Text(cx, "crc = %s(crc, (uint32_t)val);\n", <<Chars(cx.fn[4])>>)
                \o Text(cx, "return %s(crc, (uint32_t)(val >> 32));\n", <<Chars(cx.fn[4])>>)
           ELSE barrett_text(cx, 8, xndivp(95, cx.poly)))
       \o Lit("}\n\n")

\* generate.c:802-812
clmul_scalar_text(cx) ==
  Text(cx, "CRC_AINLINE %s clmul_scalar(uint32_t a, uint32_t b) {\n", <<vec16_type(cx.isa)>>)
  \o (IF is_neon(cx.isa)
      THEN Lit("uint64x2_t r;\n")
           \o Lit("__asm(\"pmull %0.1q, %1.1d, %2.1d\\n\" : \"=w\"(r) : \"w\"(vmovq_n_u64(a)), \"w\"(vmovq_n_u64(b)));\n")
           \o Lit("return r;\n")
      ELSE Lit("return _mm_clmulepi64_si128(_mm_cvtsi32_si128(a), _mm_cvtsi32_si128(b), 0);\n"))
  \o Lit("}\n\n")

\* generate.c:824-846: the emitted xnmodp.
xnmodp_text(cx) ==
  Lit("static uint32_t xnmodp(uint64_t n) /* x^n mod P, in log(n) time */ {\n")
  \o Lit("uint64_t stack = ~(uint64_t)1;\n")
  \o Lit("uint32_t acc, low;\n")
  \o Lit("for (; n > 191; n = (n >> 1) - 16) {\n")
  \o Lit("stack = (stack << 1) + (n & 1);\n")
  \o Lit("}\n")
  \o Lit("stack = ~stack;\n")
  \o Lit("acc = ((uint32_t)0x80000000) >> (n & 31);\n")
  \o Lit("for (n >>= 5; n; --n) {\n")
  \o Text(cx, "acc = %s(acc, 0);\n", <<Chars(cx.fn[4])>>)
  \o Lit("}\n")
  \o Lit("while ((low = stack & 1), stack >>= 1) {\n")
  \o (IF is_neon(cx.isa)
      THEN Lit("poly8x8_t x = vreinterpret_p8_u64(vmov_n_u64(acc));\n")
           \o Lit("uint64_t y = vgetq_lane_u64(vreinterpretq_u64_p16(vmull_p8(x, x)), 0);\n")
      ELSE Lit("__m128i x = _mm_cvtsi32_si128(acc);\n")
           \o Lit("uint64_t y = _mm_cvtsi128_si64(_mm_clmulepi64_si128(x, x, 0));\n"))
  \o Text(cx, "acc = %s(0, y << low);\n", <<Chars(cx.fn[8])>>)
  \o Lit("}\n")
  \o Lit("return acc;\n")
  \o Lit("}\n\n")

\* generate.c:848-850
crc_shift_text(cx) ==
  Text(cx, "CRC_AINLINE %s crc_shift(uint32_t crc, size_t nbytes) {\n", <<vec16_type(cx.isa)>>)
  \o Lit("return clmul_scalar(crc, xnmodp(nbytes * 8 - 33));\n")
  \o Lit("}\n\n")

(***************************************************************************)
(* The statements of crc32_impl.                                           *)
(***************************************************************************)
\* generate.c:889-898
product_text(cx, pr) ==
  IF pr[1] = "0" THEN Lit("0")
  ELSE Str(Chars(pr[1])) \o (IF pr[2] > 1 THEN Text(cx, " * %u", <<u32_nat(pr[2])>>) ELSE <<>>)

\* generate.c:867-887
load_text(cx, ld) ==
  (IF is_neon(cx.isa) THEN Lit("vld1q_u64((const uint64_t*)")
   ELSE IF cx.isa \in {ISA_SSE, ISA_AVX512} THEN Lit("_mm_loadu_si128((const __m128i*)")
   ELSE Lit("_mm512_loadu_si512((const void*)"))
  \o (IF ld.off # 0 THEN Lit("(") ELSE <<>>)
  \o Str(Chars(ld.base))
  \o (IF ld.off # 0 THEN Text(cx, " + %u)", <<u32_nat(ld.off)>>) ELSE <<>>)
  \o Lit(")")

\* generate.c:985-989
addend_text(cx, ld) ==
  IF ld.k = "load" THEN load_text(cx, ld)
  ELSE Text(cx, "%s%u", <<Chars(ld.base), u32_nat(ld.off)>>)

\* generate.c:853-865, and what its callers write behind it (1002-1008,
\* 1057, 1314, 1317, 1341).
crc_mem_text(cx, t) ==
  Text(cx, "crc%u = ", <<u32_nat(t.a)>>)
  \o (IF t.b = 8
      THEN Text(cx, "%s(crc%u, *(const uint64_t*)", <<Chars(cx.fn[8]), u32_nat(t.a)>>)
      ELSE IF t.b = 4
      THEN Text(cx, "%s(crc%u, *(const uint32_t*)", <<Chars(cx.fn[4]), u32_nat(t.a)>>)
      ELSE Text(cx, "%s(crc%u, *(const uint8_t*)", <<Chars(cx.fn[1]), u32_nat(t.a)>>))
  \o (IF t.c # 0 \/ t.e.klen[1] # "0" THEN Lit("(") ELSE <<>>)
  \o Lit("buf")
  \o (IF t.e.klen[1] # "0" THEN Lit(" + ") \o product_text(cx, t.e.klen) ELSE <<>>)
  \o (IF t.c # 0 THEN Text(cx, " + %u", <<u32_nat(t.c)>>) ELSE <<>>)
  \o (IF t.c # 0 \/ t.e.klen[1] # "0" THEN Lit(")") ELSE <<>>)
  \o (IF t.e.vc THEN Lit(" ^ vc") ELSE <<>>)
  \o (IF t.e.sep = ";" THEN Lit(");\n") ELSE Lit("), "))

\* generate.c:900-934
RECURSIVE vc_tree_text(_, _)
vc_tree_text(cx, e) ==
  IF e[1] = "vc" THEN Text(cx, "vc%u", <<u32_nat(e[2])>>)
  ELSE IF e[1] = "xor3"
  THEN (IF cx.isa = ISA_NEON_EOR3 THEN Lit("veor3q_u64(") ELSE Lit("_mm_ternarylogic_epi64("))
       \o vc_tree_text(cx, e[2]) \o Lit(", ")
       \o vc_tree_text(cx, e[3]) \o Lit(", ")
       \o vc_tree_text(cx, e[4])
       \o (IF cx.isa # ISA_NEON_EOR3 THEN Lit(", 0x96") ELSE <<>>)
       \o Lit(")")
  ELSE (IF is_neon(cx.isa) THEN Lit("veorq_u64(") ELSE Lit("_mm_xor_si128("))
       \o vc_tree_text(cx, e[2]) \o Lit(", ")
       \o vc_tree_text(cx, e[3])
       \o Lit(")")

\* The constant xnmodp(k) of the generator, as put_fmt takes it.
xnmodp_u32(cx, k) == u32_word(xnmodp(k, cx.poly))

\* generate.c:936-949
set_k_text(cx, t) ==
  IF is_neon(cx.isa)
  THEN Text(cx, "{ static const uint64_t CRC_ALIGN(16) k_[] = {0x%x, 0x%x}; ",
            <<xnmodp_u32(cx, t.a), xnmodp_u32(cx, t.b)>>)
       \o Lit("k = vld1q_u64(k_); }\n")
  ELSE Lit("k = ")
       \o (IF t.c > 1 THEN Lit("_mm512_broadcast_i32x4(") ELSE <<>>)
       \o Text(cx, "_mm_setr_epi32(0x%x, 0, 0x%x, 0)",
               <<xnmodp_u32(cx, t.a), xnmodp_u32(cx, t.b)>>)
       \o (IF t.c > 1 THEN Lit(")") ELSE <<>>)
       \o Lit(";\n")

\* generate.c:951-967, for the scalar crc0 and the vector x0.
xor_scalar_text(cx) ==
  IF is_neon(cx.isa)
  THEN Text(cx, "%s = veorq_u64((uint64x2_t){%s, 0}, %s);\n",
            <<Chars("x0"), Chars("crc0"), Chars("x0")>>)
  ELSE IF cx.isa \in {ISA_SSE, ISA_AVX512}
  THEN Text(cx, "%s = _mm_xor_si128(_mm_cvtsi32_si128(%s), %s);\n",
            <<Chars("x0"), Chars("crc0"), Chars("x0")>>)
  ELSE Text(cx, "%s = _mm512_xor_si512(_mm512_castsi128_si512(_mm_cvtsi32_si128(%s)), %s);\n",
            <<Chars("x0"), Chars("crc0"), Chars("x0")>>)

\* generate.c:977-996: part two of emit_vector_fma.
fma_text(cx, t) ==
  IF t.op = "fma_neon"
  THEN Text(cx, "y%u = clmul_lo_e(x%u, k, ", <<u32_nat(t.a), u32_nat(t.a)>>)
       \o addend_text(cx, t.e)
       \o Text(cx, "), x%u = clmul_hi_e(x%u, k, y%u);\n",
               <<u32_nat(t.a), u32_nat(t.a), u32_nat(t.a)>>)
  ELSE IF t.op = "fma_xor2"
  THEN Text(cx, "y%u = _mm_xor_si128(y%u, ", <<u32_nat(t.a), u32_nat(t.a)>>)
       \o addend_text(cx, t.e)
       \o Text(cx, "), x%u = _mm_xor_si128(x%u, y%u);\n",
               <<u32_nat(t.a), u32_nat(t.a), u32_nat(t.a)>>)
  ELSE IF cx.isa = ISA_NEON_EOR3
  THEN Text(cx, "x%u = veor3q_u64(x%u, y%u, ", <<u32_nat(t.a), u32_nat(t.a), u32_nat(t.a)>>)
       \o addend_text(cx, t.e) \o Lit(");\n")
  ELSE IF cx.isa = ISA_AVX512
  THEN Text(cx, "x%u = _mm_ternarylogic_epi64(x%u, y%u, ",
            <<u32_nat(t.a), u32_nat(t.a), u32_nat(t.a)>>)
       \o addend_text(cx, t.e) \o Lit(", 0x96);\n")
  ELSE Text(cx, "x%u = _mm512_ternarylogic_epi64(x%u, y%u, ",
            <<u32_nat(t.a), u32_nat(t.a), u32_nat(t.a)>>)
       \o addend_text(cx, t.e) \o Lit(", 0x96);\n")

\* generate.c:1025-1028
mov_text(cx, t) ==
  FlatSeq([i \in 1..Len(t.e) |->
             Text(cx, "%sx%u = x%u",
                  <<IF i = 1 THEN <<>> ELSE Chars(", "), u32_nat(t.e[i][1]),
                    u32_nat(t.e[i][2])>>)])
  \o Lit(";\n")

\* generate.c:1122-1124, 1141-1143 and 1149-1153
limit_text(cx, t) ==
  IF t.e = "klen" /\ t.a # 0
  THEN Text(cx, "const char* limit = buf + blk * %u + klen - %u;\n",
            <<u32_nat(t.a), u32_nat(0 - t.c)>>)
  ELSE IF t.e = "klen"
  THEN Text(cx, "const char* limit = buf + klen - %u;\n", <<u32_nat(0 - t.c)>>)
  ELSE IF t.e = "len"
  THEN Text(cx, "const char* limit = buf + len - %u;\n", <<u32_nat(0 - t.c)>>)
  ELSE Text(cx, "const char* limit = buf + %u;\n", <<u32_nat(t.c)>>)

\* generate.c:1173, 1182, 1183, 1211, 1212, 1233, 1310 and 1315-1318
ptr_add_text(cx, t) ==
  IF t.e.by[1] = "1" THEN Text(cx, "%s += %u;\n", <<Chars(t.e.ptr), u32_nat(t.e.by[2])>>)
  ELSE IF t.e.by[1] = "blk" THEN Text(cx, "buf += blk * %u;\n", <<u32_nat(t.e.by[2])>>)
  ELSE Lit("buf += ") \o product_text(cx, t.e.by) \o Lit(";\n")

\* The name of the function that shifts by the amount.
shift_fn(by) == IF by.k = "const" THEN Chars("clmul_scalar") ELSE Chars("crc_shift")

\* generate.c:1242-1257
vc_set_text(cx, t) ==
  Text(cx, "vc%u = %s(crc%u, ", <<u32_nat(t.a), shift_fn(t.e), u32_nat(t.a)>>)
  \o (IF t.e.k = "const" THEN Text(cx, "0x%x", <<xnmodp_u32(cx, t.e.x)>>)
      ELSE product_text(cx, t.e.klen)
           \o (IF t.e.add # 0 THEN Text(cx, " + %u", <<u32_nat(t.e.add)>>)
               ELSE IF t.e.blk # 0 THEN Text(cx, " + blk * %u", <<u32_nat(t.e.blk)>>)
               ELSE <<>>))
  \o Lit(");\n")

\* generate.c:1289-1300
vc_fold_text(cx, t) ==
  Text(cx, "vc ^= %s(%s(%s(%s(0, %s(%s, 0)), %s(%s, 1)), ",
       <<vec16_lane8_fn(cx.isa), shift_fn(t.e.by), Chars(cx.fn[8]), Chars(cx.fn[8]),
         vec16_lane8_fn(cx.isa), Chars(t.e.x0), vec16_lane8_fn(cx.isa), Chars(t.e.x0)>>)
  \o (IF t.e.by.k = "const" THEN Text(cx, "0x%x", <<xnmodp_u32(cx, t.e.by.x)>>)
      ELSE Text(cx, "klen * %u + %u", <<u32_nat(t.e.by.klen[2]), u32_nat(t.e.by.add)>>))
  \o Lit("), 0);\n")

\* generate.c:1276-1280
k512_text(cx, t) ==
  Lit("k = _mm512_setr_epi32(")
  \o FlatSeq([i \in 1..Len(t.e) |-> Text(cx, "0x%x, 0, ", <<xnmodp_u32(cx, t.e[i])>>)])
  \o Lit("0, 0, 0, 0);\n")

\* The text of a statement that is written without a number or a name.
lit_text(op) ==
  CASE op = "fn" ->
         Lit("CRC_EXPORT uint32_t crc32_impl(uint32_t crc0, const char* buf, size_t len) {\n")
    [] op = "not" -> Lit("crc0 = ~crc0;\n")
    [] op = "end" -> Lit("const char* end = buf + len;\n")
    [] op = "vc64_decl" -> Lit("uint64_t vc;\n")
    [] op = "crc_zero" -> Lit("crc0 = 0;\n")
    [] op = "len_end" -> Lit("len = end - buf;\n")
    [] op = "do" -> Lit("do {\n")
    [] op = "{" -> Lit(" {\n")
    [] op = ";" -> Lit(";\n")
    [] op = "cond_ptr" -> Lit("while (buf <= limit)")
    [] op = "cond_kitrs" -> Lit("while (--kitrs)")
    [] op = "for_bytes" -> Lit("for (; len; --len) {\n")
    [] op = "ret" -> Lit("return ~crc0;\n")
    [] op = "vc_zero" -> Lit("vc = 0;\n")
    [] op = "mul512" -> Lit("y0 = clmul_lo(x0, k), k = clmul_hi(x0, k);\n")
    [] op = "xor512" -> Lit("y0 = _mm512_xor_si512(y0, k);\n")
    [] op = "z0_fold" ->
         Lit("z0 = _mm_ternarylogic_epi64(_mm512_castsi512_si128(y0), _mm512_extracti32x4_epi32(y0, 1), _mm512_extracti32x4_epi32(y0, 2), 0x96);\n")
    [] op = "z0_last" -> Lit("z0 = _mm_xor_si128(z0, _mm512_extracti32x4_epi32(x0, 3));\n")

LitOps ==
  {"fn", "not", "end", "vc64_decl", "crc_zero", "len_end", "do", "{", ";", "cond_ptr",
   "cond_kitrs", "for_bytes", "ret", "vc_zero", "mul512", "xor512", "z0_fold", "z0_last"}

\* The text of a statement written by one put_fmt of numbers.
num_text(cx, t) ==
  CASE t.op = "for_align" ->
         Text(cx, "for (; len && ((uintptr_t)buf & %u); --len) {\n", <<u32_nat(t.a)>>)
    [] t.op \in {"if_align", "while_align"} ->
         Text(cx, "%s (((uintptr_t)buf & %u) && len >= %u) {\n",
              <<IF t.op = "if_align" THEN Chars("if") ELSE Chars("while"), u32_nat(t.a),
                u32_nat(t.b)>>)
    [] t.op = "while_len" -> Text(cx, "while (len >= %u) {\n", <<u32_nat(t.a)>>)
    [] t.op = "if_len" -> Text(cx, "if (len >= %u) {\n", <<u32_nat(t.a)>>)
    [] t.op = "kitrs" -> Text(cx, "uint32_t kitrs = %u;\n", <<u32_nat(t.a)>>)
    [] t.op = "klen_const" -> Text(cx, "const size_t klen = %u;\n", <<u32_nat(t.a)>>)
    [] t.op = "klen_len" ->
         Text(cx, "size_t klen = ((len - %u) / %u) * %u;\n",
              <<u32_nat(t.a), u32_nat(t.b), u32_nat(t.c)>>)
    [] t.op = "klen_blk" ->
         IF t.b = 1 THEN Text(cx, "const size_t klen = blk * %u;\n", <<u32_nat(t.a)>>)
         ELSE Text(cx, "size_t klen = blk * %u;\n", <<u32_nat(t.a)>>)
    [] t.op = "blk_const" -> Text(cx, "const size_t blk = %u;\n", <<u32_nat(t.a)>>)
    [] t.op = "blk_len" ->
         Text(cx, "size_t blk = (len - %u) / %u;\n", <<u32_nat(t.a), u32_nat(t.b)>>)
    [] t.op = "crc_decl" -> Text(cx, "uint32_t crc%u = 0;\n", <<u32_nat(t.a)>>)
    [] t.op = "vc_decl" -> Text(cx, "%s vc%u;\n", <<vec16_type(cx.isa), u32_nat(t.a)>>)
    [] t.op = "z0_decl" -> Text(cx, "%s z0;\n", <<vec16_type(cx.isa)>>)
    [] t.op = "k_decl" -> Text(cx, "%s k;\n", <<vector_type(cx.isa)>>)
    [] t.op = "fma_mul" ->
         Text(cx, "y%u = clmul_lo(x%u, k), x%u = clmul_hi(x%u, k);\n",
              <<u32_nat(t.a), u32_nat(t.a), u32_nat(t.a), u32_nat(t.a)>>)
    [] t.op = "len_sub" -> Text(cx, "len -= %u;\n", <<u32_nat(t.a)>>)
    [] t.op = "buf_set" -> Text(cx, "buf = %s;\n", <<Chars(t.e)>>)
    [] t.op = "cond_len" -> Text(cx, "while (len >= %u)", <<u32_nat(t.a)>>)
    [] t.op = "for_len" ->
         Text(cx, "for (; len >= %u; buf += %u, len -= %u) {\n",
              <<u32_nat(t.a), u32_nat(t.a), u32_nat(t.a)>>)
    [] t.op = "byte" -> Text(cx, "crc0 = %s(crc0, *buf++);\n", <<Chars(cx.fn[1])>>)
    [] t.op = "crc_copy" -> Text(cx, "crc0 = crc%u;\n", <<u32_nat(t.a)>>)
    [] t.op = "crc_lane0" ->
         Text(cx, "crc0 = %s(0, %s(%s, 0));\n",
              <<Chars(cx.fn[8]), vec16_lane8_fn(cx.isa), Chars(t.e.x0)>>)
    [] t.op = "crc_lane1" ->
         Text(cx, "crc0 = %s(crc0, %s%s(%s, 1));\n",
              <<Chars(cx.fn[8]), IF t.e.vc THEN Chars("vc ^ ") ELSE <<>>,
                vec16_lane8_fn(cx.isa), Chars(t.e.x0)>>)
    [] t.op = "/*" -> IF t.b = 0 THEN Lit(t.e) ELSE Text(cx, t.e, <<u32_nat(t.a)>>)

\* generate.c:1038-1350: the characters one statement of crc32_impl is.
stmt_text(cx, t) ==
  IF t.op \in LitOps THEN lit_text(t.op)
  ELSE IF t.op = "}" THEN (IF t.a = 1 THEN Lit("} ") ELSE Lit("}\n"))
  ELSE IF t.op = "crc_mem" THEN crc_mem_text(cx, t)
  ELSE IF t.op = "limit" THEN limit_text(cx, t)
  ELSE IF t.op = "buf2"
    THEN Text(cx, "const char* %s = buf + ", <<Chars("buf2")>>)
         \o product_text(cx, t.e) \o Lit(";\n")
  ELSE IF t.op = "x_decl"
    THEN Text(cx, "%s x%u = ", <<vector_type(cx.isa), u32_nat(t.a)>>)
         \o load_text(cx, t.e) \o Text(cx, ", y%u;\n", <<u32_nat(t.a)>>)
  ELSE IF t.op = "set_k" THEN set_k_text(cx, t)
  ELSE IF t.op = "xor_scalar" THEN xor_scalar_text(cx)
  ELSE IF t.op \in {"fma_neon", "fma_xor2", "fma_xor3"} THEN fma_text(cx, t)
  ELSE IF t.op = "mov" THEN mov_text(cx, t)
  ELSE IF t.op = "ptr_add" THEN ptr_add_text(cx, t)
  ELSE IF t.op = "vc_set" THEN vc_set_text(cx, t)
  ELSE IF t.op = "vc_tree"
    THEN Text(cx, "vc = %s(", <<vec16_lane8_fn(cx.isa)>>)
         \o vc_tree_text(cx, t.e) \o Lit(", 0);\n")
  ELSE IF t.op = "vc_fold" THEN vc_fold_text(cx, t)
  ELSE IF t.op = "k512" THEN k512_text(cx, t)
  ELSE num_text(cx, t)

\* generate.c:1038-1352: the buffer b of emit_main_fn as flushed.
main_text(cx, text) == FlatSeq([i \in 1..Len(text) |-> stmt_text(cx, text[i])])

(***************************************************************************)
(* The file.                                                               *)
(***************************************************************************)
\* The size of the scalar helper of a name.
scalar_size(name) == IF name = "crc_u8" THEN 1 ELSE IF name = "crc_u32" THEN 4 ELSE 8

\* What was put into g_includes or g_out for one item.
define_text(cx, d, text) ==
  IF d.def = "#include" THEN header_text(cx, d.isa)
  ELSE IF d.def = "CRC_AINLINE" THEN preprocessor_text
  ELSE IF d.def = "g_crc_table" THEN crc_table_text(cx)
  ELSE IF d.def \in {"clmul_lo", "clmul_lo_e"} THEN clmul_fn_text(cx, "lo", d.isa)
  ELSE IF d.def \in {"clmul_hi", "clmul_hi_e"} THEN clmul_fn_text(cx, "hi", d.isa)
  ELSE IF d.def \in {"crc_u8", "crc_u32", "crc_u64"}
    THEN crc_scalar_text(cx, scalar_size(d.def))
  ELSE IF d.def = "clmul_scalar" THEN clmul_scalar_text(cx)
  ELSE IF d.def = "xnmodp" THEN xnmodp_text(cx)
  ELSE IF d.def = "crc_shift" THEN crc_shift_text(cx)
  ELSE main_text(cx, text)

\* generate.c:248-296: the text flush_sbuf_to hands to write_indenting, the
\* comment of parse_args first in g_includes, g_includes first in g_out.
flushed_text(cx, header, h, text) ==
  Str(header)
  \o FlatSeq([i \in 1..Len(h.g_includes) |-> define_text(cx, h.g_includes[i], text)])
  \o FlatSeq([i \in 1..Len(h.g_out) |-> define_text(cx, h.g_out[i], text)])

\* generate.c:1371: the bytes of the output file.
output_file(cx, header, h, text) ==
  write_indenting(<<>>, flushed_chars(cx, flushed_text(cx, header, h, text)),
                  indent_state_zero)

(***************************************************************************)
(* The published sample: src/sample_neon_eor3_crc32_v9s3x2e_s3.c, line by   *)
(* line; every line but the last ends with a newline.                      *)
(***************************************************************************)
sample_lines ==
  <<"/* Generated by https://github.com/corsix/fast-crc32/ using: */",
    "/* ./generate -i neon_eor3 -p crc32 -a v9s3x2e_s3 */",
    "/* MIT licensed */",
    "",
    "#include <stddef.h>",
    "#include <stdint.h>",
    "#include <arm_acle.h>",
    "#include <arm_neon.h>",
    "",
    "#if defined(_MSC_VER)",
    "#define CRC_AINLINE static __forceinline",
    "#define CRC_ALIGN(n) __declspec(align(n))",
    "#else",
    "#define CRC_AINLINE static __inline __attribute__((always_inline))",
    "#define CRC_ALIGN(n) __attribute__((aligned(n)))",
    "#endif",
    "#define CRC_EXPORT extern",
    "",
    "CRC_AINLINE uint64x2_t clmul_lo(uint64x2_t a, uint64x2_t b) {",
    "  uint64x2_t r;",
    "  __asm(\"pmull %0.1q, %1.1d, %2.1d\\n\" : \"=w\"(r) : \"w\"(a), \"w\"(b));",
    "  return r;",
    "}",
    "",
    "CRC_AINLINE uint64x2_t clmul_hi(uint64x2_t a, uint64x2_t b) {",
    "  uint64x2_t r;",
    "  __asm(\"pmull2 %0.1q, %1.2d, %2.2d\\n\" : \"=w\"(r) : \"w\"(a), \"w\"(b));",
    "  return r;",
    "}",
    "",
    "CRC_AINLINE uint64x2_t clmul_scalar(uint32_t a, uint32_t b) {",
    "  uint64x2_t r;",
    "  __asm(\"pmull %0.1q, %1.1d, %2.1d\\n\" : \"=w\"(r) : \"w\"(vmovq_n_u64(a)), \"w\"(vmovq_n_u64(b)));",
    "  return r;",
    "}",
    "",
    "static uint32_t xnmodp(uint64_t n) /* x^n mod P, in log(n) time */ {",
    "  uint64_t stack = ~(uint64_t)1;",
    "  uint32_t acc, low;",
    "  for (; n > 191; n = (n >> 1) - 16) {",
    "    stack = (stack << 1) + (n & 1);",
    "  }",
    "  stack = ~stack;",
    "  acc = ((uint32_t)0x80000000) >> (n & 31);",
    "  for (n >>= 5; n; --n) {",
    "    acc = __crc32w(acc, 0);",
    "  }",
    "  while ((low = stack & 1), stack >>= 1) {",
    "    poly8x8_t x = vreinterpret_p8_u64(vmov_n_u64(acc));",
    "    uint64_t y = vgetq_lane_u64(vreinterpretq_u64_p16(vmull_p8(x, x)), 0);",
    "    acc = __crc32d(0, y << low);",
    "  }",
    "  return acc;",
    "}",
    "",
    "CRC_AINLINE uint64x2_t crc_shift(uint32_t crc, uint32_t nbytes) {",
    "  return clmul_scalar(crc, xnmodp(nbytes * 8 - 33));",
    "}",
    "",
    "CRC_EXPORT uint32_t crc32_impl(uint32_t crc0, const char* buf, size_t len) {",
    "  crc0 = ~crc0;",
    "  for (; len && ((uintptr_t)buf & 7); --len) {",
    "    crc0 = __crc32b(crc0, *buf++);",
    "  }",
    "  if (((uintptr_t)buf & 8) && len >= 8) {",
    "    crc0 = __crc32d(crc0, *(const uint64_t*)buf);",
    "    buf += 8;",
    "    len -= 8;",
    "  }",
    "  if (len >= 192) {",
    "    const char* end = buf + len;",
    "    size_t blk = (len - 0) / 192;",
    "    size_t klen = blk * 16;",
    "    const char* buf2 = buf + klen * 3;",
    "    const char* limit = buf + klen - 32;",
    "    uint32_t crc1 = 0;",
    "    uint32_t crc2 = 0;",
    "    uint64x2_t vc0;",
    "    uint64x2_t vc1;",
    "    uint64x2_t vc2;",
    "    uint64_t vc;",
    "    /* First vector chunk. */",
    "    uint64x2_t x0 = vld1q_u64((const uint64_t*)buf2), y0;",
    "    uint64x2_t x1 = vld1q_u64((const uint64_t*)(buf2 + 16)), y1;",
    "    uint64x2_t x2 = vld1q_u64((const uint64_t*)(buf2 + 32)), y2;",
    "    uint64x2_t x3 = vld1q_u64((const uint64_t*)(buf2 + 48)), y3;",
    "    uint64x2_t x4 = vld1q_u64((const uint64_t*)(buf2 + 64)), y4;",
    "    uint64x2_t x5 = vld1q_u64((const uint64_t*)(buf2 + 80)), y5;",
    "    uint64x2_t x6 = vld1q_u64((const uint64_t*)(buf2 + 96)), y6;",
    "    uint64x2_t x7 = vld1q_u64((const uint64_t*)(buf2 + 112)), y7;",
    "    uint64x2_t x8 = vld1q_u64((const uint64_t*)(buf2 + 128)), y8;",
    "    uint64x2_t k;",
    "    { static const uint64_t CRC_ALIGN(16) k_[] = {0x26b70c3d, 0x3f41287a}; k = vld1q_u64(k_); }",
    "    buf2 += 144;",
    "    /* Main loop. */",
    "    while (buf <= limit) {",
    "      y0 = clmul_lo(x0, k), x0 = clmul_hi(x0, k);",
    "      y1 = clmul_lo(x1, k), x1 = clmul_hi(x1, k);",
    "      y2 = clmul_lo(x2, k), x2 = clmul_hi(x2, k);",
    "      y3 = clmul_lo(x3, k), x3 = clmul_hi(x3, k);",
    "      y4 = clmul_lo(x4, k), x4 = clmul_hi(x4, k);",
    "      y5 = clmul_lo(x5, k), x5 = clmul_hi(x5, k);",
    "      y6 = clmul_lo(x6, k), x6 = clmul_hi(x6, k);",
    "      y7 = clmul_lo(x7, k), x7 = clmul_hi(x7, k);",
    "      y8 = clmul_lo(x8, k), x8 = clmul_hi(x8, k);",
    "      x0 = veor3q_u64(x0, y0, vld1q_u64((const uint64_t*)buf2));",
    "      x1 = veor3q_u64(x1, y1, vld1q_u64((const uint64_t*)(buf2 + 16)));",
    "      x2 = veor3q_u64(x2, y2, vld1q_u64((const uint64_t*)(buf2 + 32)));",
    "      x3 = veor3q_u64(x3, y3, vld1q_u64((const uint64_t*)(buf2 + 48)));",
    "      x4 = veor3q_u64(x4, y4, vld1q_u64((const uint64_t*)(buf2 + 64)));",
    "      x5 = veor3q_u64(x5, y5, vld1q_u64((const uint64_t*)(buf2 + 80)));",
    "      x6 = veor3q_u64(x6, y6, vld1q_u64((const uint64_t*)(buf2 + 96)));",
    "      x7 = veor3q_u64(x7, y7, vld1q_u64((const uint64_t*)(buf2 + 112)));",
    "      x8 = veor3q_u64(x8, y8, vld1q_u64((const uint64_t*)(buf2 + 128)));",
    "      crc0 = __crc32d(crc0, *(const uint64_t*)buf);",
    "      crc1 = __crc32d(crc1, *(const uint64_t*)(buf + klen));",
    "      crc2 = __crc32d(crc2, *(const uint64_t*)(buf + klen * 2));",
    "      crc0 = __crc32d(crc0, *(const uint64_t*)(buf + 8));",
    "      crc1 = __crc32d(crc1, *(const uint64_t*)(buf + klen + 8));",
    "      crc2 = __crc32d(crc2, *(const uint64_t*)(buf + klen * 2 + 8));",
    "      buf += 16;",
    "      buf2 += 144;",
    "    }",
    "    /* Reduce x0 ... x8 to just x0. */",
    "    { static const uint64_t CRC_ALIGN(16) k_[] = {0xae689191, 0xccaa009e}; k = vld1q_u64(k_); }",
    "    y0 = clmul_lo(x0, k), x0 = clmul_hi(x0, k);",
    "    x0 = veor3q_u64(x0, y0, x1);",
    "    x1 = x2, x2 = x3, x3 = x4, x4 = x5, x5 = x6, x6 = x7, x7 = x8;",
    "    y0 = clmul_lo(x0, k), x0 = clmul_hi(x0, k);",
    "    y2 = clmul_lo(x2, k), x2 = clmul_hi(x2, k);",
    "    y4 = clmul_lo(x4, k), x4 = clmul_hi(x4, k);",
    "    y6 = clmul_lo(x6, k), x6 = clmul_hi(x6, k);",
    "    x0 = veor3q_u64(x0, y0, x1);",
    "    x2 = veor3q_u64(x2, y2, x3);",
    "    x4 = veor3q_u64(x4, y4, x5);",
    "    x6 = veor3q_u64(x6, y6, x7);",
    "    { static const uint64_t CRC_ALIGN(16) k_[] = {0xf1da05aa, 0x81256527}; k = vld1q_u64(k_); }",
    "    y0 = clmul_lo(x0, k), x0 = clmul_hi(x0, k);",
    "    y4 = clmul_lo(x4, k), x4 = clmul_hi(x4, k);",
    "    x0 = veor3q_u64(x0, y0, x2);",
    "    x4 = veor3q_u64(x4, y4, x6);",
    "    { static const uint64_t CRC_ALIGN(16) k_[] = {0x8f352d95, 0x1d9513d7}; k = vld1q_u64(k_); }",
    "    y0 = clmul_lo(x0, k), x0 = clmul_hi(x0, k);",
    "    x0 = veor3q_u64(x0, y0, x4);",
    "    /* Final scalar chunk. */",
    "    crc0 = __crc32d(crc0, *(const uint64_t*)buf);",
    "    crc1 = __crc32d(crc1, *(const uint64_t*)(buf + klen));",
    "    crc2 = __crc32d(crc2, *(const uint64_t*)(buf + klen * 2));",
    "    crc0 = __crc32d(crc0, *(const uint64_t*)(buf + 8));",
    "    crc1 = __crc32d(crc1, *(const uint64_t*)(buf + klen + 8));",
    "    crc2 = __crc32d(crc2, *(const uint64_t*)(buf + klen * 2 + 8));",
    "    vc0 = crc_shift(crc0, klen * 2 + blk * 144);",
    "    vc1 = crc_shift(crc1, klen + blk * 144);",
    "    vc2 = crc_shift(crc2, 0 + blk * 144);",
    "    vc = vgetq_lane_u64(veor3q_u64(vc0, vc1, vc2), 0);",
    "    /* Reduce 128 bits to 32 bits, and multiply by x^32. */",
    "    crc0 = __crc32d(0, vgetq_lane_u64(x0, 0));",
    "    crc0 = __crc32d(crc0, vc ^ vgetq_lane_u64(x0, 1));",
    "    buf = buf2;",
    "    len = end - buf;",
    "  }",
    "  if (len >= 32) {",
    "    size_t klen = ((len - 8) / 24) * 8;",
    "    uint32_t crc1 = 0;",
    "    uint32_t crc2 = 0;",
    "    uint64x2_t vc0;",
    "    uint64x2_t vc1;",
    "    uint64_t vc;",
    "    /* Main loop. */",
    "    do {",
    "      crc0 = __crc32d(crc0, *(const uint64_t*)buf);",
    "      crc1 = __crc32d(crc1, *(const uint64_t*)(buf + klen));",
    "      crc2 = __crc32d(crc2, *(const uint64_t*)(buf + klen * 2));",
    "      buf += 8;",
    "      len -= 24;",
    "    } while (len >= 32);",
    "    vc0 = crc_shift(crc0, klen * 2 + 8);",
    "    vc1 = crc_shift(crc1, klen + 8);",
    "    vc = vgetq_lane_u64(veorq_u64(vc0, vc1), 0);",
    "    /* Final 8 bytes. */",
    "    buf += klen * 2;",
    "    crc0 = crc2;",
    "    crc0 = __crc32d(crc0, *(const uint64_t*)buf ^ vc), buf += 8;",
    "    len -= 8;",
    "  }",
    "  for (; len >= 8; buf += 8, len -= 8) {",
    "    crc0 = __crc32d(crc0, *(const uint64_t*)buf);",
    "  }",
    "  for (; len; --len) {",
    "    crc0 = __crc32b(crc0, *buf++);",
    "  }",
    "  return ~crc0;",
    "}" >>

\* The characters of the sample file.
sample_file ==
  FlatSeq([i \in 1..Len(sample_lines) |->
             Chars(sample_lines[i]) \o (IF i < Len(sample_lines) THEN <<"\n">> ELSE <<>>)])

(***************************************************************************)
(* The block of one phase as the emitted function runs it: the pointers    *)
(* buf and buf2, len and the counters, without the values loaded.  buf and *)
(* buf2 are offsets from the buf the block is entered with.                *)
(***************************************************************************)
\* The places where the blocks of the phases open, and the text of the
\* j-th block up to where the next one opens.
block_starts(text) == {i \in 1..Len(text) : text[i].op \in {"while_len", "if_len"}}

block_of(text, j) ==
  LET starts == block_starts(text)
      first == CHOOSE p \in starts : Cardinality({q \in starts : q < p}) = j - 1
      later == {p \in starts : p > first} \cup {Len(text) + 1}
  IN SubSeq(text, first, (CHOOSE p \in later : \A q \in later : p <= q) - 1)

\* The state when the block is entered with len bytes left.
walk_start(len) ==
  [pc |-> 1, st |-> "run", buf |-> 0, buf2 |-> 0, len |-> len, total |-> len,
   klen |-> 0, blk |-> 0, kitrs |-> 0, limit |-> 0, end |-> 0,
   loop |-> 0, iters |-> 0, reads |-> <<>>]

\* len >= c for the size_t len; below zero it has wrapped around.
walk_len_ge(s, c) == s.len < 0 \/ s.len >= c

\* generate.c:889-898: the value of "0", klen * k, blk * k or the number k.
walk_product(s, pr) ==
  IF pr[1] = "klen" THEN s.klen * pr[2]
  ELSE IF pr[1] = "blk" THEN s.blk * pr[2]
  ELSE pr[2]

walk_pointer(s, base) == IF base = "buf2" THEN s.buf2 ELSE s.buf

\* size bytes are read at the offset at; a read outside the len bytes is
\* where the run ends.
walk_read(s, who, at, size) ==
  IF at < 0 \/ at + size > s.total THEN [s EXCEPT !.st = "over"]
  ELSE [s EXCEPT !.reads = Append(@, [who |-> who, at |-> at, size |-> size]),
                 !.pc = @ + 1]

\* generate.c:867-887: the load of a vector, or a register.
walk_load(s, ld) ==
  IF ld.k = "load" THEN walk_read(s, "v", walk_pointer(s, ld.base) + ld.off, ld.bytes)
  ELSE [s EXCEPT !.pc = @ + 1]

\* generate.c:1187-1198: the condition of the main loop; --kitrs counts
\* down first, in uint32_t.
walk_cond(s, t) ==
  IF t.op = "cond_ptr" THEN s.buf <= s.limit
  ELSE IF t.op = "cond_kitrs" THEN s.kitrs # 1
  ELSE walk_len_ge(s, t.a)

\* The first } behind the place pc.
walk_close(text, pc) ==
  CHOOSE i \in (pc + 1)..Len(text) :
    text[i].op = "}" /\ \A k \in (pc + 1)..(i - 1) : text[k].op # "}"

\* generate.c:1199-1221: the condition stands before the body (followed by
\* an open brace) or behind it (followed by a semicolon).
walk_loop(text, s, t) ==
  LET counted == IF t.op = "cond_kitrs" THEN [s EXCEPT !.kitrs = @ - 1] ELSE s
  IN IF text[s.pc + 1].op = "{"
     THEN (IF walk_cond(s, t)
           THEN [counted EXCEPT !.pc = @ + 2, !.loop = s.pc, !.iters = @ + 1]
           ELSE [counted EXCEPT !.pc = walk_close(text, s.pc) + 1, !.loop = 0])
     ELSE (IF walk_cond(s, t)
           THEN [counted EXCEPT !.pc = s.loop + 1, !.iters = @ + 1]
           ELSE [counted EXCEPT !.pc = @ + 2, !.loop = 0])

\* A closing brace: of the loop whose condition stands before the body, of
\* the body of a do, or of the block.
walk_brace(text, s, t) ==
  IF t.a = 1 THEN [s EXCEPT !.pc = @ + 1]
  ELSE IF s.loop # 0 THEN [s EXCEPT !.pc = s.loop]
  ELSE [s EXCEPT !.st = "left"]

\* The variables declared at the head of the block (generate.c:1116-1155).
walk_vars(s, t) ==
  CASE t.op = "kitrs" -> [s EXCEPT !.kitrs = t.a]
    [] t.op = "end" -> [s EXCEPT !.end = s.buf + s.len]
    [] t.op = "klen_const" -> [s EXCEPT !.klen = t.a]
    [] t.op = "klen_len" -> [s EXCEPT !.klen = ((s.len - t.a) \div t.b) * t.c]
    [] t.op = "blk_const" -> [s EXCEPT !.blk = t.a]
    [] t.op = "blk_len" -> [s EXCEPT !.blk = (s.len - t.a) \div t.b]
    [] t.op = "klen_blk" -> [s EXCEPT !.klen = s.blk * t.a]
    [] t.op = "buf2" -> [s EXCEPT !.buf2 = s.buf + walk_product(s, t.e)]
    [] t.op = "limit" ->
         [s EXCEPT !.limit = s.buf + s.blk * t.a + t.c
                             + (IF t.e = "klen" THEN s.klen
                                ELSE IF t.e = "len" THEN s.len ELSE 0)]

\* One statement of the block.
walk_stmt(text, s, t) ==
  IF t.op \in {"while_len", "if_len"}
    THEN (IF walk_len_ge(s, t.a) THEN [s EXCEPT !.pc = @ + 1] ELSE [s EXCEPT !.st = "skipped"])
  ELSE IF t.op \in {"kitrs", "end", "klen_const", "klen_len", "blk_const", "blk_len",
                    "klen_blk", "buf2", "limit"}
    THEN [walk_vars(s, t) EXCEPT !.pc = @ + 1]
  ELSE IF t.op \in {"x_decl", "fma_neon", "fma_xor2", "fma_xor3"} THEN walk_load(s, t.e)
  ELSE IF t.op = "crc_mem"
    THEN walk_read(s, "s", s.buf + walk_product(s, t.e.klen) + t.c, t.b)
  ELSE IF t.op = "ptr_add"
    THEN (IF t.e.ptr = "buf2"
          THEN [s EXCEPT !.buf2 = @ + walk_product(s, t.e.by), !.pc = @ + 1]
          ELSE [s EXCEPT !.buf = @ + walk_product(s, t.e.by), !.pc = @ + 1])
  ELSE IF t.op = "len_sub" THEN [s EXCEPT !.len = @ - t.a, !.pc = @ + 1]
  ELSE IF t.op = "len_end" THEN [s EXCEPT !.len = s.end - s.buf, !.pc = @ + 1]
  ELSE IF t.op = "buf_set" THEN [s EXCEPT !.buf = walk_pointer(s, t.e), !.pc = @ + 1]
  ELSE IF t.op = "do" THEN [s EXCEPT !.loop = s.pc, !.iters = @ + 1, !.pc = @ + 1]
  ELSE IF t.op \in {"cond_ptr", "cond_kitrs", "cond_len"} THEN walk_loop(text, s, t)
  ELSE IF t.op = "}" THEN walk_brace(text, s, t)
  ELSE [s EXCEPT !.pc = @ + 1]

\* The block is run for at most steps statements; a run that has not left
\* the block by then goes on without end or reads outside the buffer.
walk(text, len, steps) ==
  LET last == WhileN(LAMBDA s : s.st = "run" /\ s.pc <= Len(text),
                     LAMBDA s : walk_stmt(text, s, text[s.pc]),
                     walk_start(len), steps)
  IN [st |-> last.st, buf |-> last.buf, len |-> last.len, iters |-> last.iters,
      reads |-> last.reads, do |-> \E i \in 1..Len(text) : text[i].op = "do"]

\* The algorithm with use_end_ptr of every phase the other way.
twin_algo(algo) ==
  [k \in 1..Len(algo) |->
     [algo[k] EXCEPT !.use_end_ptr = IF @ = {} THEN U32(1) ELSE {}]]

(***************************************************************************)
(* The values of the emitted function.  The function is the same text for  *)
(* every polynomial but for its constants x^k mod P, and its result is     *)
(* linear in the bytes of the buffer and in the crc it is given, so a      *)
(* value is kept as the polynomial it stands for before the reduction by   *)
(* P: a sum (exclusive or) of atoms, each an unknown times a power of x.   *)
(* A word of the emitted code is bit-reflected: its lowest bit is the      *)
(* highest power of x.                                                     *)
(*                                                                         *)
(*   "C" q      the crc given to the function, times x^q                   *)
(*   "1" q      the word 0xFFFFFFFF, times x^q                             *)
(*   "X" q      x^q                                                        *)
(*   "B" q p    the bytes of the buffer from p on: the sum over i >= p of  *)
(*              byte i times x^(q - 8i); the bytes of [lo, hi) are the     *)
(*              sum of the atoms of lo and of hi                           *)
(*   "L" q p v  lane p (0 = low 64 bits) of the 128-bit product number v,  *)
(*              times x^q; the product itself is kept in a table           *)
(*   "?"        a value the code does not determine                        *)
(*                                                                         *)
(* Two values made of the same atoms are equal for every polynomial, every *)
(* buffer and every crc.                                                   *)
(***************************************************************************)
Atom(t, q, p, v) == [t |-> t, q |-> q, p |-> p, v |-> v]

Unknown == {Atom("?", 0, 0, 0)}
IsUnknown(e) == Atom("?", 0, 0, 0) \in e

\* 0xFFFFFFFF, the operand of ~.
ONES == {Atom("1", 0, 0, 0)}

\* The constant x^q mod P (xnmodp(q) of the generator, generate.c:537-565).
XPow(q) == {Atom("X", q, 0, 0)}

\* a ^ b
GfPlus(a, b) ==
  IF IsUnknown(a) \/ IsUnknown(b) THEN Unknown
  ELSE {x : x \in (a \ b) \cup (b \ a)}

\* e times x^k
GfTimes(e, k) ==
  IF IsUnknown(e) THEN Unknown ELSE {Atom(a.t, a.q + k, a.p, a.v) : a \in e}

\* The bytes from p on, of a buffer of total bytes, times x^q.
ByteSum(q, p, total) == IF p >= total THEN {} ELSE {Atom("B", q, p, 0)}

\* A little-endian load of size bytes at p: byte p is the highest power.
load_le(p, size, total) ==
  GfPlus(ByteSum(8 * (p + size - 1), p, total),
         ByteSum(8 * (p + size - 1), p + size, total))

\* The product of a value and a constant x^q; a product of two values that
\* are not constants is not linear and is kept as undetermined.
GfMulConst(a, k) ==
  IF a = {} \/ k = {} THEN {}
  ELSE IF IsUnknown(a) \/ IsUnknown(k) THEN Unknown
  ELSE IF \E c \in k : k = {c} /\ c.t = "X"
    THEN GfTimes(a, (CHOOSE c \in k : TRUE).q)
  ELSE Unknown

\* The carry-less product of two reflected 64-bit lanes, as a reflected
\* 128-bit value: a times b times x (generate.c:637-669, pclmulqdq / pmull).
clmul_lanes(a, b) == GfTimes(GfMulConst(a, b), 1)

\* The lanes of a product that are together in e: lane 1 at x^q beside
\* lane 0 at x^(q + 64) is the whole product times x^q.
Paired(e) ==
  {a \in e : a.t = "L" /\ a.p = 1 /\ Atom("L", a.q + 64, 0, a.v) \in e}

ResolveOne(e, vecs, a) ==
  GfPlus(e \ {a, Atom("L", a.q + 64, 0, a.v)}, GfTimes(vecs[a.v], a.q))

RECURSIVE Resolve(_, _)
Resolve(e, vecs) ==
  IF IsUnknown(e) \/ Paired(e) = {} THEN e
  ELSE Resolve(ResolveOne(e, vecs, CHOOSE a \in Paired(e) : TRUE), vecs)

\* generate.c:671-722 and 767-793: crc_u8, crc_u32 and crc_u64, each taken
\* as the step of the CRC it is emitted to be: (crc * x^(8 size) + val *
\* x^32) mod P.
crc_u(crc, val, size, vecs) ==
  Resolve(GfPlus(GfTimes(crc, 8 * size), GfTimes(val, 32)), vecs)

\* A 128-bit part of a vector: lane 0 is the low 64 bits, the higher powers.
Block(l0, l1) == [l0 |-> l0, l1 |-> l1]

ZeroBlock == Block({}, {})
UnknownBlock == Block(Unknown, Unknown)
UnknownVec(parts) == [i \in 1..parts |-> UnknownBlock]

BlockXor(a, b) == Block(GfPlus(a.l0, b.l0), GfPlus(a.l1, b.l1))
VecXor(a, b) == [i \in 1..Len(a) |-> BlockXor(a[i], b[i])]

\* The load of a vector of 16 * parts bytes at p.
vload(p, parts, total) ==
  [i \in 1..parts |-> Block(load_le(p + 16 * (i - 1), 8, total),
                            load_le(p + 16 * (i - 1) + 8, 8, total))]

\* The lanes of the product number id.
product_block(prod, id) ==
  IF prod = {} THEN ZeroBlock
  ELSE IF IsUnknown(prod) THEN UnknownBlock
  ELSE Block({Atom("L", 0, 0, id)}, {Atom("L", 0, 1, id)})

\* generate.c:637-669: clmul_lo (lane 0) or clmul_hi (lane 1) of every
\* 128-bit part of a and b; the products.
clmul_products(a, b, lane) ==
  [i \in 1..Len(a) |->
     IF lane = 0 THEN clmul_lanes(a[i].l0, b[i].l0) ELSE clmul_lanes(a[i].l1, b[i].l1)]

\* The vector of the products, numbered after the first products.
clmul_vector(prods, first) ==
  [i \in 1..Len(prods) |-> product_block(prods[i], first + i)]

\* generate.c:796-811: clmul_scalar(a, b) with b = x^q; the 32-bit operands
\* leave the product in the low 64 bits.
clmul_scalar(a, q) == Block(GfTimes(a, q + 1), {})

\* generate.c:822-826: the emitted xnmodp pushes the low bit of n and
\* halves n until n <= 191; the last bit pushed is first in the stack.
xnmodp_push(k) ==
  While(LAMBDA s : s.k > 191,
        LAMBDA s : [k |-> (s.k \div 2) - 16, stack |-> <<s.k % 2>> \o s.stack],
        [k |-> k, stack |-> <<>>])

\* generate.c:832-841: acc = crc_u64(0, (acc * acc) << low) with low the
\* complement of the bit pushed: the product of two reflected 32-bit words
\* is the square times x, the shift divides by x^low, crc_u64 multiplies by
\* x^32.  The exponent of acc.
RECURSIVE xnmodp_pop(_, _)
xnmodp_pop(acc, stack) ==
  IF stack = <<>> THEN acc
  ELSE xnmodp_pop(2 * acc + 1 - (1 - Head(stack)) + 32, Tail(stack))

\* generate.c:819-843: the exponent of the power of x that the emitted
\* xnmodp(k) returns: acc starts as x^(k & 31) and is multiplied by x^32
\* k >> 5 times (827-831).
xnmodp_exponent(k) ==
  xnmodp_pop((xnmodp_push(k).k % 32) + 32 * (xnmodp_push(k).k \div 32),
             xnmodp_push(k).stack)

\* generate.c:846-848: crc_shift(crc, nbytes) = clmul_scalar(crc,
\* xnmodp(nbytes * 8 - 33)); below 5 bytes the exponent wraps around.
crc_shift(crc, nbytes) ==
  IF nbytes * 8 < 33 THEN UnknownBlock
  ELSE clmul_scalar(crc, xnmodp_exponent(nbytes * 8 - 33))

\* The reference of bench.c:236-249, started from ~crc and complemented at
\* the end: one byte at a time, crc = (crc >> 8) ^ table[(crc ^ byte) & 0xFF].
crc_ref_byte(v, i, total) == crc_u(v, load_le(i, 1, total), 1, <<>>)

crc_ref(crc, lo, hi, total) ==
  GfPlus(While(LAMBDA s : s.i < hi,
               LAMBDA s : [i |-> s.i + 1, v |-> crc_ref_byte(s.v, s.i, total)],
               [i |-> lo, v |-> GfPlus(crc, ONES)]).v,
         ONES)

(***************************************************************************)
(* The emitted crc32_impl as the C compiler reads it.  A name is a letter  *)
(* and a number: crc0 is <<"crc", 0>>, buf is <<"buf", 0>>.                *)
(***************************************************************************)
Name(id, i) == <<id, i>>

\* The statements that open a block closed by a later "}".
Openers ==
  {"fn", "for_align", "if_align", "while_align", "while_len", "if_len", "do", "{",
   "for_len", "for_bytes"}

\* The name a product lhs * rhs reads.
product_names(pr) == IF pr[1] \in {"klen", "blk"} THEN {Name(pr[1], 0)} ELSE {}

\* The names a vector operand reads: a load reads its pointer, a register
\* itself.
addend_names(ld) ==
  IF ld.k = "reg" THEN {Name("x", ld.off)} ELSE {Name(ld.base, 0)}

\* The names a shift amount reads.
shift_names(by) ==
  IF by.k = "const" THEN {}
  ELSE product_names(by.klen)
         \cup (IF by.add = 0 /\ by.blk # 0 THEN {Name("blk", 0)} ELSE {})

RECURSIVE tree_names(_)
tree_names(e) ==
  IF e[1] = "vc" THEN {Name("vcv", e[2])}
  ELSE IF e[1] = "xor" THEN tree_names(e[2]) \cup tree_names(e[3])
  ELSE tree_names(e[2]) \cup tree_names(e[3]) \cup tree_names(e[4])

\* The names a statement reads or assigns.
stmt_uses(t) ==
  CASE t.op \in {"not", "crc_zero", "ret"} -> {Name("crc", 0)}
    [] t.op \in {"for_align", "if_align", "while_align"} -> {Name("len", 0), Name("buf", 0)}
    [] t.op \in {"while_len", "if_len", "for_bytes", "cond_len", "len_sub", "klen_len",
                 "blk_len"} -> {Name("len", 0)}
    [] t.op = "for_len" -> {Name("len", 0), Name("buf", 0)}
    [] t.op = "byte" -> {Name("crc", 0), Name("buf", 0)}
    [] t.op = "end" -> {Name("buf", 0), Name("len", 0)}
    [] t.op = "len_end" -> {Name("end", 0), Name("buf", 0), Name("len", 0)}
    [] t.op = "klen_blk" -> {Name("blk", 0)}
    [] t.op = "limit" ->
         {Name("buf", 0)} \cup (IF t.a # 0 THEN {Name("blk", 0)} ELSE {})
           \cup (IF t.e = "" THEN {} ELSE {Name(t.e, 0)})
    [] t.op = "buf2" -> {Name("buf", 0)} \cup product_names(t.e)
    [] t.op = "crc_mem" ->
         {Name("crc", t.a), Name("buf", 0)} \cup product_names(t.e.klen)
           \cup (IF t.e.vc THEN {Name("vc", 0)} ELSE {})
    [] t.op = "x_decl" -> {Name(t.e.base, 0)}
    [] t.op = "set_k" -> {Name("k", 0)}
    [] t.op = "xor_scalar" -> {Name("x", 0), Name("crc", 0)}
    [] t.op = "fma_mul" -> {Name("x", t.a), Name("y", t.a), Name("k", 0)}
    [] t.op \in {"fma_neon", "fma_xor2", "fma_xor3"} ->
         {Name("x", t.a), Name("y", t.a), Name("k", 0)} \cup addend_names(t.e)
    [] t.op = "mov" -> UNION {{Name("x", t.e[i][1]), Name("x", t.e[i][2])} : i \in 1..Len(t.e)}
    [] t.op = "ptr_add" -> {Name(t.e.ptr, 0)} \cup product_names(t.e.by)
    [] t.op = "buf_set" -> {Name("buf", 0), Name(t.e, 0)}
    [] t.op = "cond_ptr" -> {Name("buf", 0), Name("limit", 0)}
    [] t.op = "cond_kitrs" -> {Name("kitrs", 0)}
    [] t.op = "vc_set" -> {Name("vcv", t.a), Name("crc", t.a)} \cup shift_names(t.e)
    [] t.op = "vc_zero" -> {Name("vc", 0)}
    [] t.op = "vc_tree" -> {Name("vc", 0)} \cup tree_names(t.e)
    [] t.op = "k512" -> {Name("k", 0)}
    [] t.op \in {"mul512", "xor512"} -> {Name("x", 0), Name("y", 0), Name("k", 0)}
    [] t.op = "z0_fold" -> {Name("z", 0), Name("y", 0)}
    [] t.op = "z0_last" -> {Name("z", 0), Name("x", 0)}
    [] t.op = "vc_fold" -> {Name("vc", 0), Name(t.e.x0, 0)} \cup shift_names(t.e.by)
    [] t.op \in {"crc_lane0", "crc_lane1"} ->
         {Name("crc", 0), Name(t.e.x0, 0)} \cup (IF t.e.vc THEN {Name("vc", 0)} ELSE {})
    [] t.op = "crc_copy" -> {Name("crc", 0), Name("crc", t.a)}
    [] OTHER -> {}

\* The names a statement declares.
stmt_decls(t) ==
  CASE t.op = "fn" -> {Name("crc", 0), Name("buf", 0), Name("len", 0)}
    [] t.op = "kitrs" -> {Name("kitrs", 0)}
    [] t.op = "end" -> {Name("end", 0)}
    [] t.op \in {"klen_const", "klen_len", "klen_blk"} -> {Name("klen", 0)}
    [] t.op \in {"blk_const", "blk_len"} -> {Name("blk", 0)}
    [] t.op = "limit" -> {Name("limit", 0)}
    [] t.op = "buf2" -> {Name("buf2", 0)}
    [] t.op = "crc_decl" -> {Name("crc", t.a)}
    [] t.op = "vc_decl" -> {Name("vcv", t.a)}
    [] t.op = "vc64_decl" -> {Name("vc", 0)}
    [] t.op = "z0_decl" -> {Name("z", 0)}
    [] t.op = "x_decl" -> {Name("x", t.a), Name("y", t.a)}
    [] t.op = "k_decl" -> {Name("k", 0)}
    [] OTHER -> {}

\* The registers x0 and z0 are named "x0" and "z0" in the reductions.
reg_name(t) ==
  IF t.op \in {"vc_fold", "crc_lane0", "crc_lane1"}
  THEN [t EXCEPT !.e.x0 = IF @ = "z0" THEN "z" ELSE "x"]
  ELSE t

\* One statement of the pass over the text: scopes is the stack of the
\* names declared by every open block, innermost first.
scope_stmt(s, t) ==
  IF t.op = "}"
    THEN [i |-> s.i + 1, ok |-> s.ok /\ Len(s.scopes) > 0, scopes |-> Tail(s.scopes)]
  ELSE IF t.op \in Openers
    THEN [i |-> s.i + 1,
          ok |-> s.ok /\ stmt_uses(t) \subseteq UNION {s.scopes[j] : j \in 1..Len(s.scopes)},
          scopes |-> <<stmt_decls(t)>> \o s.scopes]
  ELSE [i |-> s.i + 1,
        ok |-> s.ok /\ stmt_uses(t) \subseteq UNION {s.scopes[j] : j \in 1..Len(s.scopes)},
        scopes |-> <<Head(s.scopes) \cup stmt_decls(t)>> \o Tail(s.scopes)]

\* The text is accepted by the compiler: every name is declared in an open
\* block before it is used, and the blocks are closed.
compiles(text) ==
  text # <<>>
  /\ While(LAMBDA s : s.ok /\ s.i <= Len(text),
           LAMBDA s : scope_stmt(s, reg_name(text[s.i])),
           [i |-> 1, ok |-> TRUE, scopes |-> <<>>]).ok

\* One statement of the pass that finds, for every opener, its "}" and for
\* every "}" its opener.
mate_stmt(s, t) ==
  IF t.op \in Openers
    THEN [i |-> s.i + 1, open |-> <<s.i>> \o s.open, mate |-> s.mate]
  ELSE IF t.op = "}" /\ s.open # <<>>
    THEN [i |-> s.i + 1, open |-> Tail(s.open),
          mate |-> [s.mate EXCEPT ![s.i] = Head(s.open), ![Head(s.open)] = s.i]]
  ELSE [i |-> s.i + 1, open |-> s.open, mate |-> s.mate]

mates(text) ==
  While(LAMBDA s : s.i <= Len(text),
        LAMBDA s : mate_stmt(s, text[s.i]),
        [i |-> 1, open |-> <<>>, mate |-> [j \in 1..Len(text) |-> 0]]).mate

\* What the compiler makes of the text.
compile(text) ==
  IF compiles(text) THEN [ok |-> TRUE, text |-> text, mate |-> mates(text)]
  ELSE [ok |-> FALSE, text |-> <<>>, mate |-> <<>>]

(***************************************************************************)
(* A call of the emitted crc32_impl.  m is what the call is given: the     *)
(* compiled text with the mate of every brace, the buffer (its bytes are   *)
(* lo .. hi - 1 of total bytes that start at the address a0) and what the  *)
(* bits left undefined by _mm512_castsi128_si512 hold.  s is the state of  *)
(* the call: pc, the variables of the function, rd the number of bytes     *)
(* read so far, vecs the products of the vector multiplications.           *)
(*                                                                         *)
(* A pointer is the number of the byte it points to.  len is a size_t: a   *)
(* negative number stands for the value that wrapped around, 2^64 + len,   *)
(* which is above every number it is compared with.  st is "run" until the *)
(* function returns ("ret"); a read outside the buffer ends the call in    *)
(* "oob", whatever the read would give, and a length computed from a       *)
(* wrapped len ends it in "wrap".                                          *)
(***************************************************************************)
RECURSIVE BitAnd(_, _)
BitAnd(a, b) ==
  IF a = 0 \/ b = 0 THEN 0
  ELSE ((a % 2) * (b % 2)) + 2 * BitAnd(a \div 2, b \div 2)

goto(s, pc) == [s EXCEPT !.pc = pc]
halt(s, st) == [s EXCEPT !.st = st]

\* len >= c for the size_t len.
len_ge(s, c) == s.len < 0 \/ s.len >= c

\* The bytes p .. p + size - 1 are inside the buffer.
in_buffer(m, p, size) == m.lo <= p /\ p + size <= m.hi

\* The value of the product lhs * rhs.
product_value(s, pr) ==
  CASE pr[1] = "klen" -> s.klen * pr[2]
    [] pr[1] = "blk" -> s.blk * pr[2]
    [] pr[1] = "1" -> pr[2]
    [] OTHER -> 0

pointer(s, base) == IF base = "buf2" THEN s.buf2 ELSE s.buf

\* A block is entered when its condition holds, else left behind.
enter_if(m, s, cond) == goto(s, IF cond THEN s.pc + 1 ELSE m.mate[s.pc] + 1)

\* generate.c:1046 and 1054: ((uintptr_t)buf & mask)
misaligned(m, s, mask) == BitAnd(m.a0 + s.buf, mask) # 0

\* A slip in for_align_cond: the test of len is left out.
for_align_cond_slip(m, s, t) == misaligned(m, s, t.a)

\* generate.c:1046: for (; len && ((uintptr_t)buf & %u); --len)
for_align_cond(m, s, t) == s.len # 0 /\ misaligned(m, s, t.a)

\* generate.c:1047 and 1346: crc0 = crc_u8(crc0, *buf++);
do_byte(m, s) ==
  IF ~in_buffer(m, s.buf, 1) THEN halt(s, "oob")
  ELSE [s EXCEPT !.pc = @ + 1, !.buf = @ + 1, !.rd = @ + 1,
                 !.crc[0] = crc_u(@, load_le(s.buf, 1, m.total), 1, s.vecs)]

\* generate.c:853-865 with the address its caller writes: crc{a} =
\* crc_u{size}(crc{a}, *(const T*)(buf + klen * j + off) [^ vc]);
crc_mem_at(m, s, t, p) ==
  IF ~in_buffer(m, p, t.b) THEN halt(s, "oob")
  ELSE [s EXCEPT !.pc = @ + 1, !.rd = @ + t.b,
                 !.crc[t.a] = crc_u(@, IF t.e.vc
                                       THEN GfPlus(load_le(p, t.b, m.total), s.vc)
                                       ELSE load_le(p, t.b, m.total),
                                    t.b, s.vecs)]

do_crc_mem(m, s, t) == crc_mem_at(m, s, t, s.buf + product_value(s, t.e.klen) + t.c)

\* generate.c:1120 and 1132: (len - tail) / block_size
len_blocks(s, t) == (s.len - t.a) \div t.b

\* generate.c:867-887: the load of a vector, parts of 128 bits.
load_parts(ld) == ld.bytes \div 16
load_at(s, ld) == pointer(s, ld.base) + ld.off
load_ok(m, s, ld) == ld.k = "reg" \/ in_buffer(m, load_at(s, ld), ld.bytes)
load_value(m, s, ld) ==
  IF ld.k = "reg" THEN s.x[ld.off] ELSE vload(load_at(s, ld), load_parts(ld), m.total)
load_read(ld) == IF ld.k = "reg" THEN 0 ELSE ld.bytes

\* generate.c:1161-1166: x{a} = load, y{a};
do_x_decl(m, s, t) ==
  IF ~load_ok(m, s, t.e) THEN halt(s, "oob")
  ELSE [s EXCEPT !.pc = @ + 1, !.rd = @ + load_read(t.e),
                 !.x = (t.a :> load_value(m, s, t.e)) @@ @,
                 !.y = (t.a :> UnknownVec(load_parts(t.e))) @@ @]

\* generate.c:936-949: the two constants, each in the low 32 bits of its
\* 64-bit lane.
do_set_k(s, t) ==
  [s EXCEPT !.pc = @ + 1,
            !.k = [i \in 1..t.c |-> Block(XPow(t.a + 32), XPow(t.b + 32))]]

\* generate.c:960: the parts of the vector above the first 128 bits come
\* from _mm512_castsi128_si512, which leaves them undefined.
cast_upper(m, x0) ==
  [i \in 1..Len(x0) |-> IF i > 1 /\ m.upper = "undefined" THEN UnknownBlock ELSE x0[i]]

\* generate.c:951-967: x0 = (crc0 in the low 32 bits) ^ x0
do_xor_scalar(m, s) ==
  [s EXCEPT !.pc = @ + 1,
            !.x[0] = cast_upper(m, [@ EXCEPT ![1].l0 = GfPlus(@, GfTimes(s.crc[0], 32))])]

\* generate.c:974-976: y{a} = clmul_lo(x{a}, k), x{a} = clmul_hi(x{a}, k);
mul_lo_hi(s, a, lo, hi) ==
  [s EXCEPT !.pc = @ + 1,
            !.y[a] = clmul_vector(lo, Len(s.vecs)),
            !.x[a] = clmul_vector(hi, Len(s.vecs) + Len(lo)),
            !.vecs = @ \o lo \o hi]

do_fma_mul(s, t) ==
  mul_lo_hi(s, t.a, clmul_products(s.x[t.a], s.k, 0), clmul_products(s.x[t.a], s.k, 1))

\* generate.c:978-981: y = clmul_lo_e(x, k, addend), x = clmul_hi_e(x, k, y);
\* each is the product xored with its third operand.
fma_neon_xor(s, t, add) ==
  [s EXCEPT !.y[t.a] = VecXor(@, add),
            !.x[t.a] = VecXor(@, VecXor(s.y[t.a], add))]

do_fma_neon(m, s, t) ==
  IF ~load_ok(m, s, t.e) THEN halt(s, "oob")
  ELSE [fma_neon_xor(do_fma_mul(s, t), t, load_value(m, s, t.e))
          EXCEPT !.rd = @ + load_read(t.e)]

\* generate.c:982-984: y = y ^ addend, x = x ^ y;
do_fma_xor2(m, s, t) ==
  IF ~load_ok(m, s, t.e) THEN halt(s, "oob")
  ELSE [s EXCEPT !.pc = @ + 1, !.rd = @ + load_read(t.e),
                 !.y[t.a] = VecXor(@, load_value(m, s, t.e)),
                 !.x[t.a] = VecXor(@, VecXor(s.y[t.a], load_value(m, s, t.e)))]

\* generate.c:990-996: x = x ^ y ^ addend;
do_fma_xor3(m, s, t) ==
  IF ~load_ok(m, s, t.e) THEN halt(s, "oob")
  ELSE [s EXCEPT !.pc = @ + 1, !.rd = @ + load_read(t.e),
                 !.x[t.a] = VecXor(@, VecXor(s.y[t.a], load_value(m, s, t.e)))]

\* generate.c:1025-1028: x{i*d} = x{i*d+d}, one after the other.
RECURSIVE do_mov(_, _)
do_mov(x, pairs) ==
  IF pairs = <<>> THEN x
  ELSE do_mov([x EXCEPT ![Head(pairs)[1]] = x[Head(pairs)[2]]], Tail(pairs))

\* ptr += by;
do_ptr_add(s, t) ==
  IF t.e.ptr = "buf2"
  THEN [s EXCEPT !.pc = @ + 1, !.buf2 = @ + product_value(s, t.e.by)]
  ELSE [s EXCEPT !.pc = @ + 1, !.buf = @ + product_value(s, t.e.by)]

\* generate.c:1187-1198: the condition of the main loop.
loop_cond_holds(s, t) ==
  CASE t.op = "cond_ptr" -> s.buf <= s.limit
    [] t.op = "cond_kitrs" -> s.kitrs # 1          \* --kitrs
    [] OTHER -> len_ge(s, t.a)

\* generate.c:1199-1222: the condition is written before the "{" of a
\* while loop and after the "}" of a do loop.
do_loop_cond(m, s, t) ==
  [goto(s, IF m.text[s.pc + 1].op = "{"
           THEN (IF loop_cond_holds(s, t) THEN s.pc + 2 ELSE m.mate[s.pc + 1] + 1)
           ELSE (IF loop_cond_holds(s, t) THEN m.mate[s.pc - 1] + 1 ELSE s.pc + 2))
     EXCEPT !.kitrs = IF t.op = "cond_kitrs" THEN @ - 1 ELSE @]

\* The "}" of a block: a loop goes back to its condition.
do_close(m, s, o) ==
  CASE o.op \in {"for_align", "for_bytes"} ->
         [s EXCEPT !.pc = m.mate[s.pc], !.len = @ - 1]
    [] o.op = "for_len" ->
         [s EXCEPT !.pc = m.mate[s.pc], !.len = @ - o.a, !.buf = @ + o.a]
    [] o.op \in {"while_align", "while_len"} -> goto(s, m.mate[s.pc])
    [] o.op = "{" -> goto(s, m.mate[s.pc] - 1)
    [] OTHER -> goto(s, s.pc + 1)

\* The bytes of a shift amount: klen * j + add, or klen * j + blk * c.
shift_amount(s, by) ==
  product_value(s, by.klen) + (IF by.add # 0 THEN by.add ELSE s.blk * by.blk)

\* generate.c:1242-1257 and 1290-1299: clmul_scalar(crc, constant) or
\* crc_shift(crc, bytes).
shifted(s, crc, by) ==
  IF by.k = "const" THEN clmul_scalar(crc, by.x) ELSE crc_shift(crc, shift_amount(s, by))

\* generate.c:900-934: the xor of vc{lo} ... vc{hi-1}.
RECURSIVE tree_value(_, _)
tree_value(vcv, e) ==
  IF e[1] = "vc" THEN vcv[e[2]]
  ELSE IF e[1] = "xor" THEN BlockXor(tree_value(vcv, e[2]), tree_value(vcv, e[3]))
  ELSE BlockXor(tree_value(vcv, e[2]),
                BlockXor(tree_value(vcv, e[3]), tree_value(vcv, e[4])))

\* generate.c:1276-1279: the six constants of k, zero in its last part.
k512_value(e) ==
  <<Block(XPow(e[1] + 32), XPow(e[2] + 32)), Block(XPow(e[3] + 32), XPow(e[4] + 32)),
    Block(XPow(e[5] + 32), XPow(e[6] + 32)), ZeroBlock>>

\* generate.c:1280: y0 = clmul_lo(x0, k), k = clmul_hi(x0, k);
mul512(s, lo, hi) ==
  [s EXCEPT !.pc = @ + 1,
            !.y[0] = clmul_vector(lo, Len(s.vecs)),
            !.k = clmul_vector(hi, Len(s.vecs) + Len(lo)),
            !.vecs = @ \o lo \o hi]

\* The 128 bits that are reduced to 32: x0, or z0 for a vector of 512 bits.
reduced(s, x0) == IF x0 = "z0" THEN s.z0 ELSE s.x[0][1]

\* generate.c:1290-1299: crc_u64(crc_u64(0, lane 0), lane 1)
lanes_crc(s, b) == crc_u(crc_u({}, b.l0, 8, s.vecs), b.l1, 8, s.vecs)

\* The statements that neither read the buffer nor jump.
do_assign(m, s, t) ==
  CASE t.op = "not" -> [s EXCEPT !.crc[0] = GfPlus(@, ONES)]                  \* 1043
    [] t.op = "kitrs" -> [s EXCEPT !.kitrs = t.a]                             \* 1110
    [] t.op = "end" -> [s EXCEPT !.end = s.buf + s.len]                       \* 1116
    [] t.op = "klen_const" -> [s EXCEPT !.klen = t.a]                         \* 1118
    [] t.op = "klen_len" -> [s EXCEPT !.klen = len_blocks(s, t) * t.c]        \* 1120
    [] t.op = "klen_blk" -> [s EXCEPT !.klen = s.blk * t.a]                   \* 1130, 1133
    [] t.op = "blk_const" -> [s EXCEPT !.blk = t.a]                           \* 1128
    [] t.op = "blk_len" -> [s EXCEPT !.blk = len_blocks(s, t)]                \* 1132
    [] t.op = "limit" ->                                                      \* 1123-1153
         [s EXCEPT !.limit = s.buf + s.blk * t.a + t.c
                             + (CASE t.e = "klen" -> s.klen [] t.e = "len" -> s.len
                                  [] OTHER -> 0)]
    [] t.op = "buf2" -> [s EXCEPT !.buf2 = s.buf + product_value(s, t.e)]     \* 1135-1137
    [] t.op = "crc_decl" -> [s EXCEPT !.crc = (t.a :> {}) @@ @]               \* 1158
    [] t.op = "vc_decl" -> [s EXCEPT !.vcv = (t.a :> UnknownBlock) @@ @]      \* 1241
    [] t.op = "vc64_decl" -> [s EXCEPT !.vc = Unknown]                        \* 1260
    [] t.op = "z0_decl" -> [s EXCEPT !.z0 = UnknownBlock]                     \* 1283
    [] t.op = "k_decl" -> [s EXCEPT !.k = UnknownVec(Len(s.x[0]))]            \* 1168
    [] t.op = "crc_zero" -> [s EXCEPT !.crc[0] = {}]                          \* 1172
    [] t.op = "mov" -> [s EXCEPT !.x = do_mov(@, t.e)]
    [] t.op = "len_sub" -> [s EXCEPT !.len = @ - t.a]
    [] t.op = "len_end" -> [s EXCEPT !.len = s.end - s.buf]                   \* 1331
    [] t.op = "buf_set" -> [s EXCEPT !.buf = pointer(s, t.e)]                 \* 1321
    [] t.op = "vc_set" -> [s EXCEPT !.vcv[t.a] = shifted(s, s.crc[t.a], t.e)]
    [] t.op = "vc_zero" -> [s EXCEPT !.vc = {}]                               \* 1262
    [] t.op = "vc_tree" -> [s EXCEPT !.vc = tree_value(s.vcv, t.e).l0]        \* 1264-1266
    [] t.op = "k512" -> [s EXCEPT !.k = k512_value(t.e)]
    [] t.op = "xor512" -> [s EXCEPT !.y[0] = VecXor(@, s.k)]                  \* 1281
    [] t.op = "z0_fold" ->                                                    \* 1282-1284
         [s EXCEPT !.z0 = BlockXor(s.y[0][1], BlockXor(s.y[0][2], s.y[0][3]))]
    [] t.op = "z0_last" -> [s EXCEPT !.z0 = BlockXor(@, s.x[0][4])]           \* 1285
    [] t.op = "vc_fold" ->
         [s EXCEPT !.vc = GfPlus(@, shifted(s, lanes_crc(s, reduced(s, t.e.x0)), t.e.by).l0)]
    [] t.op = "crc_lane0" ->                                                  \* 1302
         [s EXCEPT !.crc[0] = crc_u({}, reduced(s, t.e.x0).l0, 8, s.vecs)]
    [] t.op = "crc_lane1" ->                                                  \* 1303-1305
         [s EXCEPT !.crc[0] = crc_u(@, IF t.e.vc
                                       THEN GfPlus(s.vc, reduced(s, t.e.x0).l1)
                                       ELSE reduced(s, t.e.x0).l1, 8, s.vecs)]
    [] t.op = "crc_copy" -> [s EXCEPT !.crc[0] = s.crc[t.a]]                  \* 1311
    [] OTHER -> s

\* One statement of the call.
do_stmt(m, s, t) ==
  CASE t.op = "for_align" -> enter_if(m, s, for_align_cond(m, s, t))
    [] t.op \in {"if_align", "while_align"} ->                                \* 1054
         enter_if(m, s, misaligned(m, s, t.a) /\ len_ge(s, t.b))
    [] t.op \in {"while_len", "if_len", "for_len"} -> enter_if(m, s, len_ge(s, t.a))
    [] t.op = "for_bytes" -> enter_if(m, s, s.len # 0)                        \* 1345
    [] t.op = "}" -> do_close(m, s, m.text[m.mate[s.pc]])
    [] t.op \in {"cond_ptr", "cond_kitrs", "cond_len"} -> do_loop_cond(m, s, t)
    [] t.op = "byte" -> do_byte(m, s)
    [] t.op = "crc_mem" -> do_crc_mem(m, s, t)
    [] t.op \in {"klen_len", "blk_len"} /\ s.len < t.a -> halt(s, "wrap")
    [] t.op = "x_decl" -> do_x_decl(m, s, t)
    [] t.op = "set_k" -> do_set_k(s, t)
    [] t.op = "xor_scalar" -> do_xor_scalar(m, s)
    [] t.op = "fma_mul" -> do_fma_mul(s, t)
    [] t.op = "fma_neon" -> do_fma_neon(m, s, t)
    [] t.op = "fma_xor2" -> do_fma_xor2(m, s, t)
    [] t.op = "fma_xor3" -> do_fma_xor3(m, s, t)
    [] t.op = "ptr_add" -> do_ptr_add(s, t)
    [] t.op = "mul512" ->
         mul512(s, clmul_products(s.x[0], s.k, 0), clmul_products(s.x[0], s.k, 1))
    [] t.op = "ret" -> [s EXCEPT !.st = "ret", !.ret = GfPlus(s.crc[0], ONES)]  \* 1349
    [] OTHER -> goto(do_assign(m, s, t), s.pc + 1)

\* The state in which the function is entered.
entry(m, crc) ==
  [pc |-> 1, st |-> "run", ret |-> {}, rd |-> 0, vecs |-> <<>>,
   len |-> m.hi - m.lo, buf |-> m.lo, buf2 |-> 0, klen |-> 0, blk |-> 0, kitrs |-> 0,
   limit |-> 0, end |-> 0,
   crc |-> (0 :> crc), x |-> (0 :> <<>>), y |-> (0 :> <<>>), k |-> <<>>,
   vcv |-> (0 :> UnknownBlock), vc |-> Unknown, z0 |-> UnknownBlock]

\* The call crc32_impl(crc, buf, len): its last state.
call_impl(m, crc) ==
  While(LAMBDA s : s.st = "run", LAMBDA s : do_stmt(m, s, m.text[s.pc]), entry(m, crc))

\* What the caller sees of it.
returned(s) == [st |-> s.st, ret |-> IF s.st = "ret" THEN s.ret ELSE Unknown, rd |-> s.rd]

\* The call of the function impl on bytes lo .. hi - 1.
crc32_impl(fn, crc, a0, lo, hi, total, upper) ==
  returned(call_impl([text |-> fn.text, mate |-> fn.mate, a0 |-> a0, lo |-> lo,
                      hi |-> hi, total |-> total, upper |-> upper], crc))

(***************************************************************************)
(* The state of the program and the inputs of its functions.               *)
(***************************************************************************)
polyVars == <<g_poly, n, ref, word, call>>
argVars == <<argv, given, g_isa, g_algo, g_out_path, status>>
sbufVars == <<sbufs, tree, file>>
crcVars == <<emitted, impl, run, helpers>>
vars == <<g_poly, n, ref, word, call, argv, given, g_isa, g_algo, g_out_path, status,
          sbufs, tree, file, emitted, impl, run, helpers>>

NoCall == [fn |-> "none"]
Started == [pc |-> "start", fatal |-> ""]

\* generate.c:322-325: the globals before main runs.
PolyIdle == g_poly = REV_POLY_CRC32 /\ n = 0 /\ ref = {31} /\ word = {} /\ call = NoCall
ArgsIdle ==
  /\ argv = <<>> /\ given = [isa |-> ISA_NONE, algo |-> <<>>, valid |-> FALSE]
  /\ g_isa = ISA_NONE /\ g_algo = <<>> /\ g_out_path = <<>> /\ status = Started
SbufIdle == sbufs = <<>> /\ tree = <<>> /\ file = <<>>

NotEmitted == [fatal |-> "", text |-> <<>>]
NotCompiled == [ok |-> FALSE, text |-> <<>>, mate |-> <<>>]
NoRun == [kind |-> "none"]
CrcIdle ==
  emitted = NotEmitted /\ impl = NotCompiled /\ run = NoRun /\ helpers = helpers_zero

(***************************************************************************)
(* The polynomials and words the functions are applied to.                 *)
(***************************************************************************)
Polys ==
  { REV_POLY_CRC32, REV_POLY_CRC32C, rev32(Hex(<<8, 7, 6, 5, 4, 3, 2, 1>>)), {31} }

RevInputs ==
  Polys \cup {{i, j} : i, j \in Word32} \cup {Word32 \ {i} : i \in Word32}

(***************************************************************************)
(* SpecPoly: x^n mod P and x^n div P for n = 0, 1, 2, ... beside the       *)
(* reference that reduces one bit at a time.                               *)
(***************************************************************************)
InitPoly ==
  /\ g_poly \in Polys
  /\ n = 0
  /\ ref = {31}
  /\ word = {}
  /\ call = NoCall
  /\ ArgsIdle /\ SbufIdle /\ CrcIdle

Advance ==
  /\ n < MaxN
  /\ n' = n + 1
  /\ ref' = Reduce1(ref, g_poly)
  /\ call' = NoCall
  /\ UNCHANGED <<g_poly, word, argVars, sbufVars, crcVars>>

CallXnmodp ==
  /\ call = NoCall
  /\ call' = [fn |-> "xnmodp", arg |-> n, ret |-> xnmodp(n, g_poly)]
  /\ UNCHANGED <<g_poly, n, ref, word, argVars, sbufVars, crcVars>>

CallXndivp ==
  /\ call = NoCall
  /\ n <= 95
  /\ call' = [fn |-> "xndivp", arg |-> n, ret |-> xndivp(n, g_poly)]
  /\ UNCHANGED <<g_poly, n, ref, word, argVars, sbufVars, crcVars>>

NextPoly == Advance \/ CallXnmodp \/ CallXndivp

SpecPoly == InitPoly /\ [][NextPoly]_vars

(***************************************************************************)
(* SpecRev: rev32 applied to a word.                                       *)
(***************************************************************************)
InitRev ==
  /\ g_poly = REV_POLY_CRC32
  /\ n = 0
  /\ ref = {31}
  /\ word \in RevInputs
  /\ call = NoCall
  /\ ArgsIdle /\ SbufIdle /\ CrcIdle

CallRev32 ==
  /\ call = NoCall
  /\ call' = [fn |-> "rev32", arg |-> word, ret |-> rev32(word)]
  /\ UNCHANGED <<g_poly, n, ref, word, argVars, sbufVars, crcVars>>

NextRev == CallRev32

SpecRev == InitRev /\ [][NextRev]_vars

(***************************************************************************)
(* SpecSbuf: strings and child buffers are put into the buffers in any     *)
(* order, then the root is flushed.  tree keeps, for every buffer, what    *)
(* was put into it: the strings and the children, in the order of the      *)
(* calls on that buffer.                                                   *)
(***************************************************************************)
PutStrings == {<<"a">>, <<"b">>, <<"{", "\n">>}

Entries(t) == LET RECURSIVE Sum(_)
                  Sum(k) == IF k = 0 THEN 0 ELSE Len(t[k]) + Sum(k - 1)
              IN Sum(Len(t))

InitSbuf ==
  /\ sbufs = <<sbuf_new>>                 \* generate.c:1365
  /\ tree = << <<>> >>
  /\ file = <<>>
  /\ status = Started
  /\ argv = <<>> /\ given = [isa |-> ISA_NONE, algo |-> <<>>, valid |-> FALSE]
  /\ g_isa = ISA_NONE /\ g_algo = <<>> /\ g_out_path = <<>>
  /\ PolyIdle /\ CrcIdle

PutStr ==
  \E b \in 1..Len(sbufs), str \in PutStrings :
    /\ status.pc = "start"
    /\ Entries(tree) < MaxOps
    /\ sbufs' = [sbufs EXCEPT ![b] = put_str(@, str)]
    /\ tree' = [tree EXCEPT ![b] = Append(@, [str |-> str, child |-> 0])]
    /\ UNCHANGED <<file, polyVars, argVars, crcVars>>

\* generate.c:113: put_deferred_sbuf(sb, sbuf_new())
PutNewSbuf ==
  \E b \in 1..Len(sbufs) :
    /\ status.pc = "start"
    /\ Entries(tree) < MaxOps
    /\ Len(sbufs) < MaxBufs
    /\ sbufs' = Append([sbufs EXCEPT ![b] = put_deferred_sbuf(@, Len(sbufs) + 1)], sbuf_new)
    /\ tree' = Append([tree EXCEPT ![b] = Append(@, [str |-> <<>>, child |-> Len(sbufs) + 1])],
                      <<>>)
    /\ UNCHANGED <<file, polyVars, argVars, crcVars>>

\* generate.c:1371: flush_sbuf_to(g_out, f); a FATAL inside it ends the
\* program with what was written so far.
Flush ==
  /\ status.pc = "start"
  /\ \E r \in {flush_sbuf_to(sbufs, 1)} :
        /\ file' = r.out
        /\ sbufs' = r.bufs
        /\ status' = [pc |-> IF r.fatal = "" THEN "flushed" ELSE "exit1", fatal |-> r.fatal]
  /\ UNCHANGED <<tree, polyVars, argv, given, g_isa, g_algo, g_out_path, crcVars>>

NextSbuf == PutStr \/ PutNewSbuf \/ Flush

SpecSbuf == InitSbuf /\ [][NextSbuf]_vars

(***************************************************************************)
(* SpecIndent: one text is put into the root buffer and flushed.           *)
(***************************************************************************)
IndentChars == {"{", "}", "\n", "a", " "}

IndentExamples ==
  { <<"{", "\n", "}", "\n">>,
    <<"{", "\n", "f", "o", "o", ";", "\n", "}", "\n">>,
    <<"i", "n", "t", " ", "x", "[", "]", " ", "=", " ", "{", "1", ",", "2", ",", "3", "}", ";", "\n">>,
    <<"{", "\n", "{", "\n", "x", "\n", "}", "}", "\n">> }

IndentTexts ==
  IndentExamples \cup UNION {[1..k -> IndentChars] : k \in 0..MaxTextLen}

InitIndent ==
  /\ \E text \in IndentTexts :
       /\ sbufs = <<put_str(sbuf_new, text)>>
       /\ tree = << <<[str |-> text, child |-> 0]>> >>
  /\ file = <<>>
  /\ status = Started
  /\ argv = <<>> /\ given = [isa |-> ISA_NONE, algo |-> <<>>, valid |-> FALSE]
  /\ g_isa = ISA_NONE /\ g_algo = <<>> /\ g_out_path = <<>>
  /\ PolyIdle /\ CrcIdle

NextIndent == Flush

SpecIndent == InitIndent /\ [][NextIndent]_vars


(***************************************************************************)
(* SpecArgs: main (generate.c:1364-1367) up to the return of parse_args,   *)
(* for a set of command lines.  given keeps what the command line asks     *)
(* for: the ISA named by its -i option (ISA_NONE without one), the string  *)
(* of its -a option, and whether the options other than -a are well        *)
(* formed.                                                                 *)
(***************************************************************************)
AlgoChars == {"v", "s", "k", "x", "e", "_", "0", "1", "2", "3", "?"}

AlgoShort == UNION {[1..k -> AlgoChars] : k \in 1..MaxAlgoLen}

AlgoLong ==
  { <<"s", "1">>,
    <<"v", "4">>,
    <<"v", "3", "x", "2">>,
    <<"v", "4", "s", "3", "x", "3", "k", "4", "0", "9", "6", "e", "_", "s", "1">>,
    <<"v", "4", "x", "0">>,
    <<"s", "4", "s", "2", "x", "2">>,
    <<"v", "4", "v", "2", "x", "2">>,
    <<"s", "2", "s", "3">>,
    <<"s", "3", "x", "2">>,
    <<"s", "1", "2">>,
    <<"s", "2", "x", "3", "_", "v", "2", "x", "2", "k", "6", "4", "e">>,
    <<"v", "9", "s", "2", "x", "4", "k", "2", "5", "6", "e">>,
    <<"k", "2", "x", "3">>,
    <<"v", "1", "_">>,
    <<"s", "4", "2", "9", "4", "9", "6", "7", "2", "9", "7">>,
    <<"v", "6", "5", "5", "3", "6", "x", "6", "5", "5", "3", "6">>,
    <<"s", "3", "x", "1", "4", "3", "1", "6", "5", "5", "7", "6", "6">>,
    <<"s", "3", "x", "4", "2", "9", "4", "9", "6", "7", "2", "9", "6">>,
    <<"k", "4", "2", "9", "4", "9", "6", "7", "2", "9", "7">> }

IsaGiven ==
  { [name |-> <<"n", "o", "n", "e">>, isa |-> ISA_NONE],
    [name |-> <<"n", "e", "o", "n">>, isa |-> ISA_NEON],
    [name |-> <<"a", "v", "x", "5", "1", "2", "_", "v", "p", "c", "l", "m", "u", "l", "q", "d", "q">>, isa |-> ISA_AVX512_VPCLMULQDQ] }

Program == <<".", "/", "g", "e", "n", "e", "r", "a", "t", "e">>
Opt(name, k) == arg_spellings[name][k]
OptEq(name, k, value) == arg_spellings[name][k] \o <<"=">> \o value

\* The command lines that name the ISA i and the algorithm a.
CommandsOf(i, a) ==
  LET g == [isa |-> i.isa, algo |-> a, valid |-> TRUE]
  IN { [argv |-> <<Program, Opt("isa", 2), i.name, Opt("algo", 2), a>>, given |-> g],
       [argv |-> <<Program, Opt("algo", 2), a, Opt("isa", 2), i.name>>, given |-> g],
       [argv |-> <<Program, OptEq("algo", 3, a), OptEq("isa", 1, i.name)>>, given |-> g],
       [argv |-> <<Program, Opt("isa", 2), <<"s", "s", "e">>, Opt("algo", 1), a,
                   Opt("poly", 2), <<"c", "r", "c", "3", "2", "c">>, OptEq("isa", 2, i.name),
                   Opt("out", 2), <<"o", ".", "c">>>>, given |-> g] }

\* Command lines that end the program before parse_algo is reached.
CommandsBad ==
  LET g == [isa |-> ISA_NONE, algo |-> <<>>, valid |-> FALSE]
  IN { [argv |-> <<Program, <<"-", "-", "h", "e", "l", "p">>, Opt("algo", 2), <<"s", "1">>>>, given |-> g],
       [argv |-> <<Program, <<"-", "z">>>>, given |-> g],
       [argv |-> <<Program, Opt("isa", 2), <<"n", "e", "o", "n">>, Opt("algo", 2)>>, given |-> g],
       [argv |-> <<Program, Opt("algo", 2), <<"v", "4">>, Opt("isa", 2), <<"m", "m", "x">>>>, given |-> g],
       [argv |-> <<Program, Opt("poly", 2), <<"1", "2">>, Opt("algo", 2), <<"s", "1">>>>, given |-> g],
       [argv |-> <<Program>>, given |-> g] }

Commands ==
  UNION {CommandsOf(i, a) : i \in IsaGiven, a \in AlgoLong}
    \cup {[argv |-> <<Program, Opt("isa", 2), <<"n", "e", "o", "n">>, Opt("algo", 2), a>>,
           given |-> [isa |-> ISA_NEON, algo |-> a, valid |-> TRUE]] : a \in AlgoShort}
    \cup {[argv |-> <<Program, Opt("algo", 2), a>>,
           given |-> [isa |-> ISA_NONE, algo |-> a, valid |-> TRUE]] : a \in AlgoShort}
    \cup CommandsBad

InitArgs ==
  /\ \E c \in Commands : argv = c.argv /\ given = c.given
  /\ g_isa = ISA_NONE                      \* generate.c:322
  /\ g_poly = REV_POLY_CRC32               \* generate.c:323
  /\ g_algo = <<>>                         \* generate.c:324
  /\ g_out_path = <<>>                     \* generate.c:325
  /\ sbufs = <<put_deferred_sbuf(sbuf_new, 2), sbuf_new>>    \* generate.c:1365-1366
  /\ tree = << <<[str |-> <<>>, child |-> 2]>>, <<>> >>
  /\ file = <<>>
  /\ status = Started
  /\ n = 0 /\ ref = {31} /\ word = {} /\ call = NoCall
  /\ CrcIdle

\* generate.c:1367: parse_args(argc, argv)
ParseArgs ==
  /\ status.pc = "start"
  /\ \E r \in {parse_args(argv, g_isa, g_poly, sbufs[2])} :
        /\ status' = [pc |-> r.pc, fatal |-> r.fatal]
        /\ g_isa' = r.g_isa
        /\ g_poly' = r.g_poly
        /\ g_algo' = r.g_algo
        /\ g_out_path' = r.g_out_path
        /\ sbufs' = [sbufs EXCEPT ![2] = r.g_includes]
  /\ UNCHANGED <<argv, given, tree, file, n, ref, word, call, crcVars>>

NextArgs == ParseArgs

SpecArgs == InitArgs /\ [][NextArgs]_vars


(***************************************************************************)
(* SpecNeed: main (generate.c:1364-1371) for a command line that is        *)
(* accepted, with the helpers asked for in any order and any number of     *)
(* times in the place of emit_main_fn.  The requests are those of the call *)
(* sites: need_crc_scalar of 1, 4 or 8 bytes (854, 1045, 1302, 1344),      *)
(* need_clmul_fn of lo or hi for g_isa (972-973, 1274-1275),               *)
(* need_clmul_scalar, need_crc_shift (1247-1249, 1295-1297) and            *)
(* need_immintrin_h (910, 994, 1273).                                      *)
(***************************************************************************)
IsaNames ==
  { <<"n", "o", "n", "e">>, <<"n", "e", "o", "n">>,
    <<"n", "e", "o", "n", "_", "e", "o", "r", "3">>, <<"s", "s", "e">>,
    <<"a", "v", "x", "5", "1", "2">>,
    <<"a", "v", "x", "5", "1", "2", "_", "v", "p", "c", "l", "m", "u", "l", "q", "d", "q">> }

PolyNames == {poly_names[k].lower : k \in 1..3}

NeedCommands ==
  { [argv |-> <<Program, Opt("isa", 2), i, Opt("poly", 2), p, Opt("algo", 2), <<"s", "1">>>>,
     given |-> [isa |-> parse_isa(i).isa, algo |-> <<"s", "1">>, valid |-> TRUE]] :
    i \in IsaNames, p \in PolyNames }

InitNeed ==
  /\ \E c \in NeedCommands : argv = c.argv /\ given = c.given
  /\ g_isa = ISA_NONE /\ g_poly = REV_POLY_CRC32 /\ g_algo = <<>> /\ g_out_path = <<>>
  /\ sbufs = <<put_deferred_sbuf(sbuf_new, 2), sbuf_new>>
  /\ tree = << <<[str |-> <<>>, child |-> 2]>>, <<>> >>
  /\ file = <<>>
  /\ status = Started
  /\ n = 0 /\ ref = {31} /\ word = {} /\ call = NoCall
  /\ CrcIdle

\* The step of a request: a FATAL ends the program.
Asked(h) ==
  /\ helpers' = h
  /\ status' = IF h.fatal = "" THEN status ELSE [pc |-> "exit1", fatal |-> h.fatal]
  /\ UNCHANGED <<polyVars, argv, given, g_isa, g_algo, g_out_path, sbufVars, emitted, impl, run>>

\* generate.c:1368-1369: emit_standard_preprocessor(); init_isa()
InitIsa ==
  /\ status.pc = "parsed"
  /\ helpers' = init_isa(emit_standard_preprocessor(helpers), g_isa, g_poly)
  /\ status' = [status EXCEPT !.pc = "needs"]
  /\ UNCHANGED <<polyVars, argv, given, g_isa, g_algo, g_out_path, sbufVars, emitted, impl, run>>

NeedCrcScalar ==
  \E size \in {1, 4, 8} :
    status.pc = "needs" /\ Asked(need_crc_scalar(helpers, size, g_isa))

NeedClmulFn ==
  \E which \in {"lo", "hi"} :
    status.pc = "needs" /\ Asked(need_clmul_fn(helpers, which, g_isa))

NeedClmulScalar == status.pc = "needs" /\ Asked(need_clmul_scalar(helpers, g_isa))

NeedCrcShift == status.pc = "needs" /\ Asked(need_crc_shift(helpers, g_isa))

NeedImmintrin == status.pc = "needs" /\ Asked(need_h(helpers, "immintrin"))

\* generate.c:1371: flush_sbuf_to(g_out, f)
FlushHelpers ==
  /\ status.pc = "needs"
  /\ helpers' = flush_helpers(helpers)
  /\ status' = [status EXCEPT !.pc = "flushed"]
  /\ UNCHANGED <<polyVars, argv, given, g_isa, g_algo, g_out_path, sbufVars, emitted, impl, run>>

NextNeed ==
  \/ ParseArgs \/ InitIsa \/ NeedCrcScalar \/ NeedClmulFn \/ NeedClmulScalar
  \/ NeedCrcShift \/ NeedImmintrin \/ FlushHelpers

SpecNeed == InitNeed /\ [][NextNeed]_vars

(***************************************************************************)
(* SpecPolyArg: main up to the return of parse_args for command lines that *)
(* name a polynomial: the five names in every mixture of lower and upper   *)
(* case, and literals of up to MaxPolyLen characters with and without a    *)
(* prefix.                                                                 *)
(***************************************************************************)
MaxPolyLen == 10

\* A name with every letter in lower or in upper case.
CaseMixes(k) ==
  {[i \in 1..Len(poly_names[k].lower) |->
      IF i \in up THEN poly_names[k].upper[i] ELSE poly_names[k].lower[i]] :
   up \in SUBSET (1..Len(poly_names[k].lower))}

PolyPrefixes == {<<>>, <<"0", "x">>, <<"0", "X">>, <<"x">>, <<"0">>}
PolyLeads == {<<>>, <<"1">>, <<"0">>, <<"2">>, <<"g">>, <<"F">>}
PolyBodies ==
  { <<"0", "4", "C", "1", "1", "D", "B", "7", "a", "5">>,
    <<"1", "e", "d", "c", "6", "f", "4", "1", "B", "9">>,
    <<"8", "7", "6", "5", "4", "3", "2", "1", "0", "0">>,
    <<"7", "4", "1", "b", "8", "c", "d", " ", "9", "9">>,
    <<"7", "4", "1", "b", "8", "c", "d", "7", "z", "z">> }

PolyLiterals ==
  {p \o l \o [i \in 1..len |-> b[((i - 1) % Len(b)) + 1]] :
     p \in PolyPrefixes, l \in PolyLeads, b \in PolyBodies, len \in 0..MaxPolyLen}

PolyTexts == (UNION {CaseMixes(k) : k \in 1..5}) \cup (PolyLiterals \ {<<>>})

InitPolyArg ==
  /\ \E p \in PolyTexts :
       /\ argv = <<Program, Opt("poly", 2), p, Opt("algo", 2), <<"s", "1">>>>
       /\ given = [isa |-> ISA_NONE, algo |-> <<"s", "1">>, valid |-> TRUE]
  /\ g_isa = ISA_NONE /\ g_poly = REV_POLY_CRC32 /\ g_algo = <<>> /\ g_out_path = <<>>
  /\ sbufs = <<put_deferred_sbuf(sbuf_new, 2), sbuf_new>>
  /\ tree = << <<[str |-> <<>>, child |-> 2]>>, <<>> >>
  /\ file = <<>>
  /\ status = Started
  /\ n = 0 /\ ref = {31} /\ word = {} /\ call = NoCall
  /\ CrcIdle

NextPolyArg == ParseArgs

SpecPolyArg == InitPolyArg /\ [][NextPolyArg]_vars

(***************************************************************************)
(* SpecFmt: one call of put_fmt on a buffer that is new or was written to  *)
(* before.                                                                 *)
(***************************************************************************)
FmtValues ==
  { u32(0, 0), u32(0, 7), u32(0, 10), u32(0, 65535), u32(1, 0),
    u32(1525, 57599),        \* 99999999
    u32(1525, 57600),        \* 100000000
    u32(1883, 52501),        \* 123456789
    u32(15258, 51711),       \* 999999999
    u32(15258, 51712),       \* 1000000000
    u32(32768, 0),           \* 2147483648
    u32(57005, 48879),       \* 0xdeadbeef
    u32(65535, 65535) }      \* 4294967295

FmtStrings == {<<"a", "b">>, NULL_STR}

\* The formats, each with the kinds of its arguments.
Formats ==
  { [fmt |-> <<"%", "u">>, kinds |-> <<"u">>],
    [fmt |-> <<"%", "x">>, kinds |-> <<"x">>],
    [fmt |-> <<"k", "%", "u", ";">>, kinds |-> <<"u">>],
    [fmt |-> <<"0", "x", "%", "x", ",">>, kinds |-> <<"x">>],
    [fmt |-> <<"%", "s", "%", "u">>, kinds |-> <<"s", "u">>],
    [fmt |-> <<"%", "%", "0", ".", "%", "u", "d">>, kinds |-> <<"u">>],
    [fmt |-> <<"%", "u", "%", "x">>, kinds |-> <<"u", "x">>],
    [fmt |-> <<"%", "d">>, kinds |-> <<"u">>] }

\* Bytes that were never assigned.
JunkBytes == {[j \in 1..10 |-> char_byte(c)] : c \in {"?", NUL, "0"}}

FmtBuffers ==
  { sbuf_new,
    put_str(sbuf_new, <<"a", "b", "c">>),
    put_u32(sbuf_new, u32(0, 7), [j \in 1..10 |-> char_byte("9")]),
    put_u32_hex(put_str(sbuf_new, <<"0", "x">>), u32(57005, 48879)) }

InitFmt ==
  /\ sbufs \in {<<sb>> : sb \in FmtBuffers}
  /\ tree = << <<>> >>
  /\ file = <<>>
  /\ status = Started
  /\ argv = <<>> /\ given = [isa |-> ISA_NONE, algo |-> <<>>, valid |-> FALSE]
  /\ g_isa = ISA_NONE /\ g_algo = <<>> /\ g_out_path = <<>>
  /\ PolyIdle /\ CrcIdle

\* generate.c:143-170: put_fmt(sb, fmt, ...)
PutFmt ==
  /\ status.pc = "start"
  /\ call.fn = "none"
  /\ \E f \in Formats, x \in FmtValues, str \in FmtStrings, junk \in JunkBytes :
       \E args \in {[k \in 1..Len(f.kinds) |-> IF f.kinds[k] = "s" THEN str ELSE x]} :
         \E r \in {put_fmt(sbufs[1], f.fmt, args, junk)} :
           /\ sbufs' = <<r.sb>>
           /\ call' = [fn |-> "put_fmt", fmt |-> f.fmt, args |-> args, before |-> sbufs[1]]
           /\ status' = IF r.fatal = "" THEN status ELSE [pc |-> "exit1", fatal |-> r.fatal]
  /\ UNCHANGED <<g_poly, n, ref, word, argv, given, g_isa, g_algo, g_out_path, tree,
                 file, crcVars>>

NextFmt == PutFmt

SpecFmt == InitFmt /\ [][NextFmt]_vars

(***************************************************************************)
(* SpecPlan: main up to the sizes emit_main_fn computes for one phase      *)
(* (generate.c:1061-1105), for command lines whose counts and kernel sizes *)
(* reach the ends of uint32_t.                                             *)
(***************************************************************************)
PlanV ==
  { <<>>, <<"v", "1">>, <<"v", "4">>, <<"v", "3", "x", "2">>, <<"v", "4", "x", "0">>,
    <<"v", "1", "x", "2", "6", "8", "4", "3", "5", "4", "5", "6">>,
    <<"v", "1", "x", "6", "7", "1", "0", "8", "8", "6", "4">> }

PlanS ==
  { <<>>, <<"s", "1">>, <<"s", "3">>, <<"s", "1", "x", "2">>, <<"s", "3", "x", "2">>,
    <<"s", "2", "x", "0">>,
    <<"s", "1", "x", "5", "3", "6", "8", "7", "0", "9", "1", "2">>,
    <<"s", "1", "x", "1", "0", "7", "3", "7", "4", "1", "8", "2", "3">> }

PlanK ==
  { <<>>, <<"k", "1">>, <<"k", "8">>, <<"k", "2", "4">>, <<"k", "1", "0", "0">>,
    <<"k", "2", "0", "0">>, <<"k", "4", "0", "9", "6">>,
    <<"k", "2", "1", "4", "7", "4", "8", "3", "6", "4", "8">>,
    <<"k", "4", "2", "9", "4", "9", "6", "7", "2", "9", "5">> }

PlanIsas ==
  IsaGiven \cup {[name |-> <<"s", "s", "e">>, isa |-> ISA_SSE]}

PlanCommands ==
  { [argv |-> <<Program, Opt("isa", 2), i.name, Opt("algo", 2), v \o s \o k>>,
     given |-> [isa |-> i.isa, algo |-> v \o s \o k, valid |-> TRUE]] :
      i \in PlanIsas, v \in PlanV, s \in PlanS, k \in PlanK }

InitPlan ==
  /\ \E c \in {d \in PlanCommands : d.given.algo # <<>>} : argv = c.argv /\ given = c.given
  /\ g_isa = ISA_NONE                      \* generate.c:322
  /\ g_algo = <<>>                         \* generate.c:324
  /\ g_out_path = <<>>                     \* generate.c:325
  /\ sbufs = <<put_deferred_sbuf(sbuf_new, 2), sbuf_new>>    \* generate.c:1365-1366
  /\ tree = << <<[str |-> <<>>, child |-> 2]>>, <<>> >>
  /\ file = <<>>
  /\ status = Started
  /\ PolyIdle /\ CrcIdle

\* generate.c:1061-1105: the sizes of phase k of g_algo.
PlanPhase ==
  /\ status.pc = "parsed"
  /\ call.fn = "none"
  /\ \E k \in 1..Len(g_algo), zero \in {"trap", "zero"} :
       /\ has_block(g_algo[k])
       /\ \E d \in {kernel_plan(g_algo[k], U32(vector_bytes(g_isa)),
                                U32(scalar_natural_bytes(g_isa)), zero)} :
            /\ call' = [fn |-> "emit_main_fn", ap |-> g_algo[k], d |-> d]
            /\ status' = IF d.trap THEN [pc |-> "trap", fatal |-> ""] ELSE status
  /\ UNCHANGED <<argv, given, g_isa, g_poly, g_algo, g_out_path, sbufs, tree, file,
                 n, ref, word, crcVars>>

NextPlan == ParseArgs \/ PlanPhase

SpecPlan == InitPlan /\ [][NextPlan]_vars

(***************************************************************************)
(* SpecMain: main (generate.c:1364-1372) from the command line to the      *)
(* flush of g_out, for command lines that name an ISA, a polynomial and an *)
(* algorithm.                                                              *)
(***************************************************************************)
MainAlgos ==
  { <<"s", "1">>, <<"s", "3">>, <<"s", "2", "x", "0">>, <<"s", "1", "x", "0">>,
    <<"s", "3", "k", "4", "0", "9", "6">>, <<"s", "3", "_", "s", "1">>,
    <<"s", "3", "x", "2", "e">>, <<"s", "3", "k", "6", "4", "e">>,
    <<"v", "4">>, <<"v", "4", "e">>, <<"v", "3", "x", "2">>, <<"v", "4", "x", "0">>,
    <<"v", "4", "k", "4", "0", "9", "6">>,
    <<"v", "1", "s", "1">>, <<"v", "4", "s", "1">>, <<"v", "4", "s", "3">>,
    <<"v", "4", "s", "1", "k", "4", "0", "9", "6">>,
    <<"v", "1", "s", "1", "k", "2", "0", "0">>,
    <<"v", "4", "s", "3", "k", "4", "0", "9", "6", "e">>,
    <<"v", "4", "x", "0", "s", "1">>, <<"v", "4", "x", "0", "s", "1", "x", "2">>,
    <<"v", "4", "s", "3", "x", "3", "k", "4", "0", "9", "6", "e", "_", "s", "1">>,
    <<"v", "9", "s", "3", "x", "2", "e", "_", "s", "3">>,
    <<"v", "5", "s", "2", "_", "v", "2">>,
    <<"v", "4", "s", "2", "x", "3">>, <<"v", "4", "s", "1", "x", "2">>, <<"k", "6", "4">>, <<"v", "2", "s", "4", "s", "3">>,
    <<"s", "7">>, <<"v", "1", "s", "1", "0">> }

MainCommands ==
  { [argv |-> <<Program, Opt("isa", 2), i, Opt("poly", 2), p, Opt("algo", 2), a>>,
     given |-> [isa |-> parse_isa(i).isa, algo |-> a, valid |-> TRUE]] :
    i \in IsaNames, p \in {poly_names[1].lower, poly_names[2].lower}, a \in MainAlgos }
  \cup CommandsBad

InitMain ==
  /\ \E c \in MainCommands : argv = c.argv /\ given = c.given
  /\ g_isa = ISA_NONE /\ g_poly = REV_POLY_CRC32 /\ g_algo = <<>> /\ g_out_path = <<>>
  /\ sbufs = <<put_deferred_sbuf(sbuf_new, 2), sbuf_new>>
  /\ tree = << <<[str |-> <<>>, child |-> 2]>>, <<>> >>
  /\ file = <<>>
  /\ status = Started
  /\ n = 0 /\ ref = {31} /\ word = {} /\ call = NoCall
  /\ CrcIdle

\* How main goes on after emit_main_fn.
main_pc(fatal) ==
  IF fatal = "" THEN [pc |-> "emitted", fatal |-> ""]
  ELSE IF fatal = "division by zero" THEN [pc |-> "trap", fatal |-> ""]
  ELSE [pc |-> "exit1", fatal |-> fatal]

\* generate.c:1370: emit_main_fn()
EmitMain ==
  /\ status.pc = "needs"
  /\ emitted = NotEmitted
  /\ \E zero \in {"trap", "zero"} :
       \E r \in {emit_main_fn(g_isa, g_algo, zero)} :
         /\ emitted' = r
         /\ helpers' = IF r.fatal = "" THEN main_helpers(helpers, g_isa, r.text) ELSE helpers
         /\ status' = main_pc(r.fatal)
  /\ UNCHANGED <<polyVars, argv, given, g_isa, g_algo, g_out_path, sbufVars, impl, run>>

\* generate.c:1371: flush_sbuf_to(g_out, open_output_file(g_out_path))
FlushMain ==
  /\ status.pc = "emitted"
  /\ helpers' = flush_helpers(helpers)
  /\ status' = [status EXCEPT !.pc = "flushed"]
  /\ UNCHANGED <<polyVars, argv, given, g_isa, g_algo, g_out_path, sbufVars, emitted, impl, run>>

NextMain == ParseArgs \/ InitIsa \/ EmitMain \/ FlushMain

SpecMain == InitMain /\ [][NextMain]_vars

(***************************************************************************)
(* SpecTree: emit_vector_tree_reduce (generate.c:1014-1036) for every      *)
(* vector ISA and every number of accumulators up to MaxAcc.               *)
(***************************************************************************)
MaxAcc == 20

VectorIsas == {ISA_NEON, ISA_NEON_EOR3, ISA_SSE, ISA_AVX512, ISA_AVX512_VPCLMULQDQ}

InitTree ==
  /\ n \in 1..MaxAcc
  /\ g_isa \in VectorIsas
  /\ g_poly = REV_POLY_CRC32 /\ ref = {31} /\ word = {} /\ call = NoCall
  /\ argv = <<>> /\ given = [isa |-> ISA_NONE, algo |-> <<>>, valid |-> FALSE]
  /\ g_algo = <<>> /\ g_out_path = <<>> /\ status = Started
  /\ SbufIdle /\ CrcIdle

\* generate.c:1014-1036: emit_vector_tree_reduce(b, n), and the run of the
\* text it wrote.
TreeReduce ==
  /\ emitted = NotEmitted
  /\ \E text \in {flush_stmts(emit_vector_tree_reduce(g_isa, n))} :
       /\ emitted' = [fatal |-> "", text |-> text, n |-> n]
       /\ run' = [kind |-> "tree", s |-> tree_run(text, n, vector_bytes(g_isa))]
  /\ UNCHANGED <<polyVars, argVars, sbufVars, impl, helpers>>

NextTree == TreeReduce

SpecTree == InitTree /\ [][NextTree]_vars

(***************************************************************************)
(* SpecFile: main (generate.c:1364-1372) from the command line to the      *)
(* bytes of the output file, for command lines that name an ISA, a         *)
(* polynomial and an algorithm; the command line of the published sample   *)
(* is one of them.                                                         *)
(***************************************************************************)
FileCommand(i, p, a) ==
  [argv |-> <<Program, Opt("isa", 2), i, Opt("poly", 2), p, Opt("algo", 2), a>>,
   given |-> [isa |-> parse_isa(i).isa, algo |-> a, valid |-> TRUE]]

\* The algorithms tried with every ISA that has vectors, and those tried
\* with the ISA and the polynomial of the sample.
FileAlgos == { Chars("s1"), Chars("v1"), Chars("v4s1") }
SampleAlgos == { Chars("v9s3x2e_s3"), Chars("s3"), Chars("v4s3x3k4096e_s1") }

FileCommands ==
  { FileCommand(i, p, a) : i \in IsaNames \ {Chars("none")},
                           p \in {poly_names[1].lower, poly_names[2].lower}, a \in FileAlgos }
  \cup { FileCommand(Chars("neon_eor3"), poly_names[1].lower, a) : a \in SampleAlgos }
  \cup { FileCommand(Chars("none"), poly_names[1].lower, Chars("s1")) }
  \cup { FileCommand(Chars("neon"), poly_names[3].lower, Chars("v1")) }

InitFile ==
  /\ \E c \in FileCommands : argv = c.argv /\ given = c.given
  /\ g_isa = ISA_NONE /\ g_poly = REV_POLY_CRC32 /\ g_algo = <<>> /\ g_out_path = <<>>
  /\ sbufs = <<put_deferred_sbuf(sbuf_new, 2), sbuf_new>>
  /\ tree = << <<[str |-> <<>>, child |-> 2]>>, <<>> >>
  /\ file = <<>>
  /\ status = Started
  /\ n = 0 /\ ref = {31} /\ word = {} /\ call = NoCall
  /\ CrcIdle

\* generate.c:1371: flush_sbuf_to(g_out, open_output_file(g_out_path)), with
\* the bytes that reach the file.
WriteOutput ==
  /\ status.pc = "emitted"
  /\ \E junk \in JunkBytes :
       \E w \in {output_file(Context(g_isa, g_poly, helpers, junk), sbuf_chars(sbufs[2]),
                             helpers, emitted.text)} :
         /\ file' = w.out
         /\ status' = IF w.fatal = "" THEN [status EXCEPT !.pc = "flushed"]
                      ELSE [pc |-> "exit1", fatal |-> w.fatal]
  /\ helpers' = flush_helpers(helpers)
  /\ UNCHANGED <<polyVars, argv, given, g_isa, g_algo, g_out_path, sbufs, tree, emitted,
                 impl, run>>

NextFile == ParseArgs \/ InitIsa \/ EmitMain \/ WriteOutput

SpecFile == InitFile /\ [][NextFile]_vars

(***************************************************************************)
(* SpecWrite: flush_sbuf_to hands one text to write_indenting in segments  *)
(* (generate.c:254-261), cut wherever a deferred buffer was put; the       *)
(* indent state is carried from one call to the next.  call holds the      *)
(* segment of the last call, as the offsets of its ends, and the state it  *)
(* left.                                                                   *)
(***************************************************************************)
MaxWriteLen == 4

Repeat(s, k) == FlatSeq([i \in 1..k |-> s])

\* Texts that nest as deep as the brace stack holds, and deeper.
WriteExamples ==
  { Repeat(<<"{", "\n">>, 17),
    Repeat(<<"{">>, 17),
    Repeat(<<"{", "\n">>, 16) \o <<"x", "\n">> \o Repeat(<<"}", "\n">>, 16),
    Repeat(<<"{", "\n">>, 3) \o Repeat(<<"}">>, 3) \o <<"\n">>,
    <<"{", "\n">> \o Repeat(<<"{">>, 15) \o <<"\n", "{", "\n">>,
    Repeat(<<"{", "\n">>, 16) \o <<"x", "{", "\n">> }

WriteTexts ==
  WriteExamples \cup IndentExamples \cup UNION {[1..k -> IndentChars] : k \in 0..MaxWriteLen}

InitWrite ==
  /\ \E text \in WriteTexts :
       /\ sbufs = <<put_str(sbuf_new, text)>>
       /\ tree = << <<[str |-> text, child |-> 0]>> >>
  /\ file = <<>>
  /\ status = Started
  /\ argv = <<>> /\ given = [isa |-> ISA_NONE, algo |-> <<>>, valid |-> FALSE]
  /\ g_isa = ISA_NONE /\ g_algo = <<>> /\ g_out_path = <<>>
  /\ g_poly = REV_POLY_CRC32 /\ n = 0 /\ ref = {31} /\ word = {}
  /\ call = [fn |-> "flush_sbuf_to", arg |-> <<0, 0>>, result |-> indent_state_zero]  \* 249
  /\ CrcIdle

\* generate.c:260: write_indenting(f, start, itr, &indent_state) for the
\* segment that ends at last; a FATAL ends the program.
write_segment(last) ==
  write_indenting(file, SubSeq(tree[1][1].str, call.arg[2] + 1, last), call.result)

WriteSegment ==
  /\ status.pc = "start"
  /\ \E last \in (call.arg[2] + 1)..Len(tree[1][1].str) :
       \E r \in {write_segment(last)} :
         /\ file' = r.out
         /\ call' = [fn |-> "write_indenting", arg |-> <<call.arg[2], last>>, result |-> r.st]
         /\ status' = IF r.fatal # "" THEN [pc |-> "exit1", fatal |-> r.fatal]
                      ELSE IF last = Len(tree[1][1].str) THEN [pc |-> "flushed", fatal |-> ""]
                      ELSE status
  /\ UNCHANGED <<g_poly, n, ref, word, argv, given, g_isa, g_algo, g_out_path, sbufs, tree,
                 crcVars>>

NextWrite == WriteSegment

SpecWrite == InitWrite /\ [][NextWrite]_vars


(***************************************************************************)
(* SpecShift: the emitted xnmodp for n = 0, 1, 2, ... beside the xnmodp of *)
(* the generator and the reference that reduces one bit at a time.         *)
(***************************************************************************)
MaxShift == 1500

InitShift ==
  /\ g_poly \in Polys
  /\ n = 0
  /\ ref = {31}
  /\ word = {}
  /\ call = NoCall
  /\ ArgsIdle /\ SbufIdle /\ CrcIdle

\* The next n, and x^n mod P by one more single-bit reduction.
NextExponent ==
  /\ n < MaxShift
  /\ n' = n + 1
  /\ ref' = Reduce1(ref, g_poly)
  /\ call' = NoCall
  /\ UNCHANGED <<g_poly, word, argVars, sbufVars, crcVars>>

\* The emitted xnmodp(n) is run, and xnmodp(n) of the generator.
RunXnmodp ==
  /\ call = NoCall
  /\ call' = [fn |-> "emitted xnmodp", arg |-> n, ret |-> xnmodp_emitted(n, g_poly),
              own |-> xnmodp(n, g_poly)]
  /\ UNCHANGED <<g_poly, n, ref, word, argVars, sbufVars, crcVars>>

NextShift == NextExponent \/ RunXnmodp

SpecShift == InitShift /\ [][NextShift]_vars

(***************************************************************************)
(* SpecLoop: main up to emit_main_fn, then the block of one phase of the   *)
(* emitted function is run with n bytes left, and with it the block of the *)
(* same phase emitted with the other loop termination.                     *)
(***************************************************************************)
MaxLoopLen == 40
MaxWalk == 600

\* Lengths up to some blocks, multiples of 8 and of 4 in turn.
LoopLens == {8 * k + 4 * (k % 2) : k \in 0..MaxLoopLen}

LoopAlgos ==
  { Chars("s3"), Chars("s3x2"), Chars("s3k64"), Chars("s1x2"), Chars("s1x3k100"),
    Chars("v4"), Chars("v4k256"), Chars("v1k16"), Chars("v4s3"), Chars("v1s2"),
    Chars("v4s3k200"), Chars("v1s2k96"), Chars("v2s1_v1"),
    Chars("v4x0s1x2"), Chars("v1s1x0") }

LoopCommands ==
  { FileCommand(i, poly_names[2].lower, a) :
      i \in {Chars("none"), Chars("sse")}, a \in LoopAlgos }

InitLoop ==
  /\ \E c \in LoopCommands : argv = c.argv /\ given = c.given
  /\ n \in LoopLens
  /\ g_isa = ISA_NONE /\ g_poly = REV_POLY_CRC32 /\ g_algo = <<>> /\ g_out_path = <<>>
  /\ sbufs = <<put_deferred_sbuf(sbuf_new, 2), sbuf_new>>
  /\ tree = << <<[str |-> <<>>, child |-> 2]>>, <<>> >>
  /\ file = <<>>
  /\ status = Started
  /\ ref = {31} /\ word = {} /\ call = NoCall
  /\ CrcIdle

\* The j-th block of crc32_impl is entered with n bytes left.
RunPhase ==
  /\ status.pc = "emitted"
  /\ run = NoRun
  /\ \E j \in 1..Cardinality(block_starts(emitted.text)), zero \in {"trap", "zero"} :
       \E other \in {emit_main_fn(g_isa, twin_algo(g_algo), zero)} :
         /\ other.fatal = ""
         /\ run' = [kind |-> "phase", block |-> j,
                    own |-> walk(block_of(emitted.text, j), n, MaxWalk),
                    twin |-> walk(block_of(other.text, j), n, MaxWalk)]
  /\ UNCHANGED <<polyVars, argVars, sbufVars, emitted, impl, helpers>>

NextLoop == ParseArgs \/ InitIsa \/ EmitMain \/ RunPhase

SpecLoop == InitLoop /\ [][NextLoop]_vars

(***************************************************************************)
(* SpecImpl: main up to emit_main_fn, the C compiler, and calls of the     *)
(* emitted crc32_impl as bench.c:245-258 makes them: on the first n bytes  *)
(* of a buffer, on its first i bytes, and on the bytes i .. n - 1 with the *)
(* crc the call before returned.  The crc given and the bytes of the       *)
(* buffer are unknowns, so that one call stands for every crc and every    *)
(* buffer of its length.                                                   *)
(***************************************************************************)
MaxImplLen == 16

\* The lengths 0, 1 and 2, those about one natural word, and lengths up to
\* some blocks of every algorithm tried.
ImplLens == {0, 1, 2, 8, 9} \cup {17 * k + (k % 3) : k \in 1..MaxImplLen}

\* The addresses buf starts at, modulo 64.
ImplAligns == {0, 8, 13}

\* The places the buffer is split at.
ImplSplits(len) == {i \in 0..len : i \in {0, 1, len - 1, len, (2 * len) \div 3}}

ImplCommand(i, a) == FileCommand(Chars(i), poly_names[2].lower, Chars(a))

ImplCommands ==
  { ImplCommand("none", a) : a \in {"s1", "s3", "s3x2e", "s2k64", "s1x0"} }
  \cup { ImplCommand("sse", a) :
           a \in {"s3", "v1", "v4e", "v4s3", "v1s2x2e", "v1s1k48", "v2s1_v1", "v1k32",
                  "v1s1x0", "v4x0s1"} }
  \cup { ImplCommand("neon_eor3", a) : a \in {"v4s3", "v3e"} }
  \cup { ImplCommand("avx512", a) : a \in {"v4s3"} }
  \cup { ImplCommand("avx512_vpclmulqdq", a) : a \in {"v1", "v1s1"} }

\* The crc the caller gives: an unknown.
GivenCrc == {Atom("C", 0, 0, 0)}

InitImpl ==
  /\ \E c \in ImplCommands : argv = c.argv /\ given = c.given
  /\ n \in ImplLens
  /\ g_isa = ISA_NONE /\ g_poly = REV_POLY_CRC32 /\ g_algo = <<>> /\ g_out_path = <<>>
  /\ sbufs = <<put_deferred_sbuf(sbuf_new, 2), sbuf_new>>
  /\ tree = << <<[str |-> <<>>, child |-> 2]>>, <<>> >>
  /\ file = <<>>
  /\ status = Started
  /\ ref = {31} /\ word = {} /\ call = NoCall
  /\ CrcIdle

\* The C compiler reads the statements of crc32_impl.
Compile ==
  /\ status.pc = "emitted"
  /\ impl = NotCompiled
  /\ impl' = compile(emitted.text)
  /\ UNCHANGED <<polyVars, argVars, sbufVars, emitted, run, helpers>>

\* What _mm512_castsi128_si512 leaves in the bits it does not define.
Uppers(isa) == IF isa = ISA_AVX512_VPCLMULQDQ THEN {"zero", "undefined"} ELSE {"zero"}

\* bench.c:245-258: fn(0, g_buf, n), fn(0, g_buf, i) and
\* fn(actual, g_buf + i, n - i).
CallImpl ==
  /\ impl.ok
  /\ run = NoRun
  /\ \E a0 \in ImplAligns, i \in ImplSplits(n), upper \in Uppers(g_isa) :
       LET first == crc32_impl(impl, GivenCrc, a0, 0, i, n, upper)
       IN run' = [kind |-> "call", a0 |-> a0, split |-> i, upper |-> upper,
                  whole |-> crc32_impl(impl, GivenCrc, a0, 0, n, n, upper),
                  first |-> first,
                  second |-> crc32_impl(impl, first.ret, a0, i, n, n, upper)]
  /\ UNCHANGED <<polyVars, argVars, sbufVars, emitted, impl, helpers>>

NextImpl == ParseArgs \/ InitIsa \/ EmitMain \/ Compile \/ CallImpl

SpecImpl == InitImpl /\ [][NextImpl]_vars

(***************************************************************************)
(* Claims.                                                                 *)
(***************************************************************************)

\* C4: for every polynomial and every n, xnmodp(n) is bit for bit the value
\* reached from the one-hot word of x^0 by n single-bit reductions
\* r := (r >> 1) XOR ((r & 1) * P).
C4_XnmodpIsNaive ==
  call.fn = "xnmodp" => call.ret = ref

C4_Witness ==
  /\ call.fn = "xnmodp"
  /\ call.arg = 4096
  /\ g_poly = REV_POLY_CRC32C
  /\ call.ret = ref

\* C5: rev32 reverses the bit order (bit i of the result is bit 31-i of the
\* argument), applying it twice gives the argument back, and it takes
\* 0xEDB88320 to 0x04C11DB7.
C5_Rev32Involution ==
  call.fn = "rev32" =>
    /\ \A i \in Word32 : (i \in call.ret) <=> ((31 - i) \in call.arg)
    /\ rev32(call.ret) = call.arg
    /\ (call.arg = Hex(<<14, 13, 11, 8, 8, 3, 2, 0>>)
          => call.ret = Hex(<<0, 4, 12, 1, 1, 13, 11, 7>>))

C5_Witness ==
  /\ call.fn = "rev32"
  /\ call.arg = Hex(<<14, 13, 11, 8, 8, 3, 2, 0>>)
  /\ call.ret = Hex(<<0, 4, 12, 1, 1, 13, 11, 7>>)

\* C6: for n <= 95, xndivp(n) is the quotient of x^n by P (P with its x^32
\* term): xndivp(n) * P + x^n has degree below 32 and is x^n mod P as
\* xnmodp(n) gives it; the quotient is 0 for n < 32.
C6_XndivpIsQuotient ==
  call.fn = "xndivp" =>
    /\ Xor(PolyMul(Nat64(call.ret), PFull(g_poly)), {call.arg})
         = Nat32(xnmodp(call.arg, g_poly))
    /\ (call.arg < 32 => call.ret = {})

C6_Witness ==
  /\ call.fn = "xndivp"
  /\ call.arg = 64
  /\ g_poly = REV_POLY_CRC32
  /\ call.ret # {}
  /\ Xor(PolyMul(Nat64(call.ret), PFull(g_poly)), {64}) = Nat32(ref)

(***************************************************************************)
(* The algorithm strings as the grammar reads them,                        *)
(*   algo := phase ("_" phase)*, phase := term*,                           *)
(*   term := ("v"|"s") N ("x" M)? | "k" N | "e",   N, M := [0-9]+,         *)
(* with N, M and the counts of a phase as uint32_t values (generate.c:313-  *)
(* 318, 406): a number, a product or a sum is taken modulo 2^32.           *)
(***************************************************************************)

NoPhase ==
  [v_acc |-> {}, v_load |-> {}, s_acc |-> {}, s_load |-> {},
   kernel_size |-> {}, use_end_ptr |-> {}]

NatMax(a, b) == IF WordLess(a, b) THEN b ELSE a
NatDigit(k, c) == Add(Mul(k, U32(10), 32), U32(DigitVal(c)), 32)

\* The term read so far, added to the phase.
GrammarTerm(g) ==
  LET nm == Mul(g.N, g.M, 32)
  IN IF g.kind = "v" THEN
       [g EXCEPT !.cur.v_acc = NatMax(@, g.N), !.cur.v_load = Add(@, nm, 32)]
     ELSE IF g.kind = "s" THEN
       [g EXCEPT !.cur.s_acc = NatMax(@, g.N), !.cur.s_load = Add(@, nm, 32)]
     ELSE [g EXCEPT !.cur.kernel_size = g.N]

\* The character c where a term, a "_" or the end may come.
GrammarStart(g, c) ==
  IF c \in {"v", "s", "k"} THEN [g EXCEPT !.mode = "needN", !.kind = c]
  ELSE IF c = "e" THEN [g EXCEPT !.mode = "start", !.cur.use_end_ptr = U32(1)]
  ELSE IF c = "_" THEN [g EXCEPT !.mode = "start", !.phases = Append(@, g.cur),
                                 !.cur = NoPhase]
  ELSE [g EXCEPT !.ok = FALSE]

GrammarChar(g, c) ==
  IF ~g.ok THEN g
  ELSE IF g.mode = "start" THEN GrammarStart(g, c)
  ELSE IF g.mode = "needN" THEN
    IF IsDigit(c) THEN [g EXCEPT !.mode = "inN", !.N = U32(DigitVal(c)), !.M = U32(1)]
    ELSE [g EXCEPT !.ok = FALSE]
  ELSE IF g.mode = "inN" THEN
    IF IsDigit(c) THEN [g EXCEPT !.N = NatDigit(@, c)]
    ELSE IF c = "x" /\ g.kind # "k" THEN [g EXCEPT !.mode = "needM"]
    ELSE GrammarStart(GrammarTerm(g), c)
  ELSE IF g.mode = "needM" THEN
    IF IsDigit(c) THEN [g EXCEPT !.mode = "inM", !.M = U32(DigitVal(c))]
    ELSE [g EXCEPT !.ok = FALSE]
  ELSE
    IF IsDigit(c) THEN [g EXCEPT !.M = NatDigit(@, c)]
    ELSE GrammarStart(GrammarTerm(g), c)

\* A phase with neither vectors nor scalars is one scalar accumulator with
\* one load.
GrammarDefault(p) ==
  IF p.v_acc = {} /\ p.s_acc = {} THEN [p EXCEPT !.s_acc = U32(1), !.s_load = U32(1)] ELSE p

\* ok: the string is in the grammar; phases: its phase records.
Grammar(value) ==
  LET g == Iter(LAMBDA s : [i |-> s.i + 1, g |-> GrammarChar(s.g, value[s.i])],
                [i |-> 1,
                 g |-> [ok |-> TRUE, mode |-> "start", kind |-> "", N |-> {}, M |-> {},
                        cur |-> NoPhase, phases |-> <<>>]],
                Len(value)).g
      last == IF g.mode \in {"inN", "inM"} THEN GrammarTerm(g) ELSE g
      all == Append(last.phases, last.cur)
  IN [ok |-> g.ok /\ g.mode \notin {"needN", "needM"},
      phases |-> [k \in 1..Len(all) |-> GrammarDefault(all[k])]]

\* The conditions under which a string of the grammar is refused.
Refused(p, isa) ==
  \/ p.s_acc # {} /\ Mod(p.s_load, p.s_acc, 32) # {}
  \/ p.v_acc # {} /\ Mod(p.v_load, p.v_acc, 32) # {}
  \/ isa = ISA_NONE /\ (p.v_load # {} \/ WordLess(U32(1), p.s_acc))

MustFail(value, isa) ==
  LET g == Grammar(value)
  IN ~g.ok \/ \E k \in 1..Len(g.phases) : Refused(g.phases[k], isa)

AlgoFatal ==
  { "expected digit sequence after character",
    "expected digit sequence after character x",
    "unrecognised character",
    "s load count not an integer multiple of s acc count",
    "v load count not an integer multiple of v acc count",
    "need to specify an ISA to use vector accumulators",
    "need to specify an ISA to use more than one scalar accumulator" }

AlgoParsed == given.valid /\ given.algo # <<>> /\ status.pc # "start"
AlgoFailed == status.pc = "exit1" /\ status.fatal \in AlgoFatal

\* C7: parse_algo builds one phase record per "_"-separated segment, in
\* order; a v term sets v_acc to max(v_acc, N) and adds N*M to v_load (M = 1
\* without "x"), an s term does the same for s_acc and s_load, k sets
\* kernel_size, e sets use_end_ptr, and a phase with neither vectors nor
\* scalars becomes s_acc = s_load = 1.
C7_PhaseRecords ==
  (AlgoParsed /\ status.pc = "parsed") =>
    /\ g_algo = Grammar(given.algo).phases
    /\ given.algo = <<"s", "1">> => g_algo = <<[NoPhase EXCEPT !.s_acc = U32(1), !.s_load = U32(1)]>>
    /\ given.algo = <<"v", "4">> => g_algo = <<[NoPhase EXCEPT !.v_acc = U32(4), !.v_load = U32(4)]>>
    /\ given.algo = <<"v", "3", "x", "2">>
         => g_algo = <<[NoPhase EXCEPT !.v_acc = U32(3), !.v_load = U32(6)]>>

C7_Witness ==
  /\ status.pc = "parsed"
  /\ argv = <<Program, Opt("algo", 2),
               <<"v", "4", "s", "3", "x", "3", "k", "4", "0", "9", "6", "e", "_", "s", "1">>,
               Opt("isa", 2), <<"n", "e", "o", "n">> >>
  /\ g_algo = <<[v_acc |-> U32(4), v_load |-> U32(4), s_acc |-> U32(3), s_load |-> U32(9),
                 kernel_size |-> U32(4096), use_end_ptr |-> U32(1)],
                [v_acc |-> {}, v_load |-> {}, s_acc |-> U32(1), s_load |-> U32(1),
                 kernel_size |-> {}, use_end_ptr |-> {}]>>

\* C8: parse_algo fails, and returns no phase list, exactly on a v, s, k or
\* x not followed by a digit, an unrecognised character, an x after a k
\* term, a load count that is not a multiple of its nonzero accumulator
\* count and, when the ISA given by -i is NONE, a vector load or s_acc > 1;
\* the ISA is the one given by -i wherever -i stands on the command line.
C8_FailsExactly ==
  AlgoParsed =>
    /\ AlgoFailed <=> MustFail(given.algo, given.isa)
    /\ AlgoFailed => g_algo = <<>>
    /\ ~AlgoFailed => status.pc = "parsed" /\ g_isa = given.isa

C8_Witness ==
  /\ argv = <<Program, Opt("algo", 2), <<"v", "4">>, Opt("isa", 2), <<"n", "o", "n", "e">>>>
  /\ status = [pc |-> "exit1", fatal |-> "need to specify an ISA to use vector accumulators"]
  /\ g_algo = <<>>


(***************************************************************************)
(* The text of the buffer tree in depth-first order: what was put into a   *)
(* buffer, in the order of the calls on it, with every child in the place  *)
(* where it was put.                                                       *)
(***************************************************************************)
RECURSIVE TreeText(_, _)
TreeText(t, b) ==
  LET RECURSIVE Upto(_)
      Upto(k) == IF k = 0 THEN <<>>
                 ELSE Upto(k - 1) \o (IF t[b][k].child = 0 THEN t[b][k].str
                                      ELSE TreeText(t, t[b][k].child))
  IN Upto(Len(t[b]))

\* C9: the flush writes the strings put into the buffers in the depth-first
\* (pre-order) order of the buffer tree: what was put into sb before
\* put_new_sbuf(sb), then all of the child, then what was put into sb
\* afterwards, whenever the strings were put and also for empty children.
\* The flush passes this text through the indenting writer; a text without a
\* newline comes out as it is.
C9_FlushIsPreOrder ==
  status.pc = "flushed" =>
    LET text == TreeText(tree, 1)
    IN /\ file = write_indenting(<<>>, text, indent_state_zero).out
       /\ (\A k \in 1..Len(text) : text[k] # "\n") => file = text

C9_Witness ==
  /\ status.pc = "flushed"
  /\ Len(tree) = 3
  /\ tree[1] = <<[str |-> <<"a">>, child |-> 0], [str |-> <<>>, child |-> 2],
                 [str |-> <<>>, child |-> 3], [str |-> <<"a">>, child |-> 0]>>
  /\ tree[2] = <<[str |-> <<"b">>, child |-> 0]>>
  /\ tree[3] = <<>>
  /\ file = <<"a", "b", "a">>

(***************************************************************************)
(* The indentation of a text, line by line.  A line is indented by two     *)
(* spaces for every open brace that caused an indent and is still open: an *)
(* open brace causes an indent when the newline follows it at once.  The   *)
(* closing braces a line starts with are closed before the line is         *)
(* indented; an empty line is not indented.                                *)
(***************************************************************************)
\* The lines of a text, each without its newline; ended tells whether the
\* last line has one.
TextLines(text) ==
  LET cut == <<0>> \o SelectSeq([k \in 1..Len(text) |-> IF text[k] = "\n" THEN k ELSE 0],
                               LAMBDA k : k # 0)
      ended == text = <<>> \/ text[Len(text)] = "\n"
      whole == [j \in 1..(Len(cut) - 1) |-> SubSeq(text, cut[j] + 1, cut[j + 1] - 1)]
  IN [lines |-> IF ended THEN whole
                ELSE Append(whole, SubSeq(text, cut[Len(cut)] + 1, Len(text))),
      ended |-> ended]

\* open: one entry for every open brace, TRUE when it caused an indent.
CloseBrace(open) == IF open = <<>> THEN open ELSE SubSeq(open, 1, Len(open) - 1)
Depth(open) == Cardinality({k \in 1..Len(open) : open[k]})

RECURSIVE ScanLine(_, _, _)
ScanLine(line, k, open) ==
  IF k > Len(line) THEN open
  ELSE ScanLine(line, k + 1,
                IF line[k] = "{" THEN Append(open, FALSE)
                ELSE IF line[k] = "}" THEN CloseBrace(open) ELSE open)

LeadingBraces(line) ==
  Cardinality({k \in 1..Len(line) : \A j \in 1..k : line[j] = "}"})

RECURSIVE IndentLines(_, _, _, _)
IndentLines(t, j, open, out) ==
  IF j > Len(t.lines) THEN out
  ELSE
    LET line == t.lines[j]
        ended == j < Len(t.lines) \/ t.ended
        lead == LeadingBraces(line)
        closed == ScanLine(line, 1, open)
        after == IF ended /\ line # <<>> /\ line[Len(line)] = "{"
                 THEN [closed EXCEPT ![Len(closed)] = TRUE] ELSE closed
        level == Depth(ScanLine(SubSeq(line, 1, lead), 1, open))
    IN IndentLines(t, j + 1, after,
                   out \o (IF line = <<>> THEN <<>> ELSE [k \in 1..(2 * level) |-> " "] \o line)
                       \o (IF ended THEN <<"\n">> ELSE <<>>))

Indented(text) == IndentLines(TextLines(text), 1, <<>>, <<>>)

\* The text ends in closing braces that start a line which has not ended.
EndsInsideBraces(text) ==
  \E k \in 1..(Len(text) - 1) :
    text[k] = "\n" /\ \A j \in (k + 1)..Len(text) : text[j] = "}"

FlushedText == tree[1][1].str

CountOf(text, c, lo, hi) == Cardinality({m \in lo..hi : text[m] = c})

Closes(text, k, m) ==
  /\ text[m] = "}"
  /\ CountOf(text, "{", k + 1, m - 1) = CountOf(text, "}", k + 1, m - 1)

\* The open brace at k is still open after the first p characters.
OpenAfter(text, k, p) ==
  /\ k <= p
  /\ text[k] = "{"
  /\ \A m \in (k + 1)..p : ~Closes(text, k, m)

\* The newline follows the open brace at k at once.
NewlineAtOnce(text, k) == k < Len(text) /\ text[k + 1] = "\n"

\* The open brace at k is the last character before a newline that is not
\* a space.
LastBeforeNewline(text, k) ==
  \E m \in (k + 1)..Len(text) :
    text[m] = "\n" /\ \A j \in (k + 1)..(m - 1) : text[j] = " "

\* The number of characters before line j of the text.
LineStart(text, j) ==
  Cardinality({m \in 1..Len(text) : CountOf(text, "\n", 1, m - 1) + 1 < j})

\* The lines of out are the lines of the text, each line that is not empty
\* behind two spaces for every brace of Causes that is open once the closing
\* braces the line starts with are closed.
IndentedBy(text, out, Causes(_)) ==
  /\ Len(TextLines(out).lines) = Len(TextLines(text).lines)
  /\ TextLines(out).ended = TextLines(text).ended
  /\ \A j \in 1..Len(TextLines(text).lines) :
       LET line == TextLines(text).lines[j]
           p == LineStart(text, j) + LeadingBraces(line)
           level == Cardinality({k \in 1..p : OpenAfter(text, k, p) /\ Causes(k)})
       IN TextLines(out).lines[j] =
            IF line = <<>> THEN <<>> ELSE [i \in 1..(2 * level) |-> " "] \o line

\* C11 as it is stated: an open brace causes an indent exactly when it is
\* the last character before a newline that is not white space, so that an
\* open brace, a space and a newline indent the lines that follow as an open
\* brace and a newline do; the close brace of an open brace un-indents
\* exactly when the open brace caused an indent.
C11_Stated ==
  (status.pc = "flushed" /\ ~EndsInsideBraces(FlushedText)) =>
    IndentedBy(FlushedText, file, LAMBDA k : LastBeforeNewline(FlushedText, k))

\* C11: an open brace causes an indent exactly when the newline is the very
\* next character: an open brace followed by a space and a newline does not
\* indent.  The close brace of an open brace un-indents exactly when the
\* open brace caused an indent: a line is behind two spaces for every open
\* brace that caused an indent and is not closed before the first character
\* of the line that is not a closing brace.
C11_IndentExactly ==
  (status.pc = "flushed" /\ ~EndsInsideBraces(FlushedText)) =>
    IndentedBy(FlushedText, file, LAMBDA k : NewlineAtOnce(FlushedText, k))

\* The first brace is followed by the newline and indents, the second is
\* followed by a space and does not.
C11_Witness ==
  /\ status.pc = "flushed"
  /\ FlushedText = <<"{", "\n", "{", " ", "\n", "a">>
  /\ file = <<"{", "\n", " ", " ", "{", " ", "\n", " ", " ", "a">>

(***************************************************************************)
(* The helpers of the file.                                                *)
(***************************************************************************)
HelperNames ==
  {"clmul_lo", "clmul_hi", "clmul_lo_e", "clmul_hi_e", "clmul_scalar", "crc_u8",
   "crc_u32", "crc_u64", "g_crc_table", "xnmodp", "crc_shift"}

HeaderNames ==
  {"stddef", "stdint", "arm_acle", "arm_neon", "nmmintrin", "immintrin", "wmmintrin"}

Definitions(text, name) == {k \in 1..Len(text) : text[k].def = name}
Inclusions(text, name) ==
  {k \in 1..Len(text) : text[k].def = "#include" /\ text[k].isa = name}

\* C12: whatever helpers are asked for, in whatever order and however often,
\* the file that is flushed holds at most one definition of each helper
\* and at most one #include of each header.
C12_DefinedOnce ==
  status.pc = "flushed" =>
    /\ \A name \in HelperNames : Cardinality(Definitions(helpers.written, name)) <= 1
    /\ \A name \in HeaderNames : Cardinality(Inclusions(helpers.written, name)) <= 1

\* Every request was made for neon and a polynomial without instructions of
\* its own, need_crc_shift before the others: the helpers are there once.
C12_Witness ==
  /\ status.pc = "flushed"
  /\ g_isa = ISA_NEON
  /\ helpers.done_shift /\ helpers.done_clmul = {2, 3, 5}
  /\ helpers.done_scalar = {0, 2, 3}
  /\ \A name \in HelperNames \ {"clmul_hi"} :
       Cardinality(Definitions(helpers.written, name)) = 1
  /\ Cardinality(Inclusions(helpers.written, "arm_neon")) = 1

(***************************************************************************)
(* The polynomial of the command line.                                     *)
(***************************************************************************)
PolyText == argv[3]

HexChars ==
  {"0", "1", "2", "3", "4", "5", "6", "7", "8", "9",
   "a", "b", "c", "d", "e", "f", "A", "B", "C", "D", "E", "F"}

\* 8 hexadecimal digits, or 9 of which the first is 1.
IsLiteral(v) ==
  /\ \A i \in 1..Len(v) : v[i] \in HexChars
  /\ Len(v) = 8 \/ (Len(v) = 9 /\ v[1] = "1")

\* A literal with or without the prefix 0x or 0X.
IsPrefixedLiteral(v) ==
  \/ IsLiteral(v)
  \/ Len(v) > 2 /\ v[1] = "0" /\ v[2] \in {"x", "X"} /\ IsLiteral(SubSeq(v, 3, Len(v)))

IsNameAnyCase(v) == \E k \in 1..5 : v \in CaseMixes(k)
IsNameOneCase(v) == \E k \in 1..5 : v \in {poly_names[k].lower, poly_names[k].upper}

\* C14 as it is stated: the five names are accepted in any mixture of lower
\* and upper case, a literal of 8 hexadecimal digits or of 9 with a leading
\* 1 is accepted with or without the prefix 0x, and every other string is a
\* fatal error.
C14_Stated ==
  status.pc # "start"
    => /\ status.pc \in {"parsed", "exit1"}
       /\ status.pc = "parsed" <=> (IsNameAnyCase(PolyText) \/ IsPrefixedLiteral(PolyText))

\* C14: a name is accepted when it is written all in lower case or all in
\* upper case, and in no other mixture of cases; a literal of 8
\* hexadecimal digits, or of 9 with a leading 1, is accepted with or
\* without the prefix 0x or 0X; every other string is a fatal error that
\* ends the program with status 1.
C14_AcceptedPolys ==
  status.pc # "start"
    => /\ status.pc \in {"parsed", "exit1"}
       /\ status.pc = "parsed" <=> (IsNameOneCase(PolyText) \/ IsPrefixedLiteral(PolyText))
       /\ status.pc = "exit1" =>
            status.fatal \in {"invalid polynomial", "polynomial too long", "polynomial too short"}

\* Crc32 is refused: its r is not a hexadecimal digit.
C14_Witness ==
  /\ PolyText = <<"C", "r", "c", "3", "2">>
  /\ status = [pc |-> "exit1", fatal |-> "invalid polynomial"]

\* The forward polynomials of the help text (generate.c:30-34) and of the
\* README (README.md:32-38).
poly_documented ==
  [crc32 |-> Hex(<<0, 4, 12, 1, 1, 13, 11, 7>>),
   crc32c |-> Hex(<<1, 14, 13, 12, 6, 15, 4, 1>>),
   crc32k |-> Hex(<<7, 4, 1, 11, 8, 12, 13, 7>>),
   crc32k2 |-> Hex(<<3, 2, 5, 8, 3, 4, 9, 9>>),
   crc32q |-> Hex(<<8, 1, 4, 1, 4, 1, 10, 11>>)]

\* The polynomial documented for a name of the command line.
DocumentedFor(v) ==
  CASE v \in {poly_names[1].lower, poly_names[1].upper} -> poly_documented.crc32
    [] v \in {poly_names[2].lower, poly_names[2].upper} -> poly_documented.crc32c
    [] v \in {poly_names[3].lower, poly_names[3].upper} -> poly_documented.crc32k
    [] v \in {poly_names[4].lower, poly_names[4].upper} -> poly_documented.crc32k2
    [] v \in {poly_names[5].lower, poly_names[5].upper} -> poly_documented.crc32q

\* C15: each of the names crc32, crc32c, crc32k, crc32k2 and crc32q sets
\* g_poly to the bit reversal of the forward polynomial documented for it:
\* 0x04C11DB7, 0x1EDC6F41, 0x741B8CD7, 0x32583499 and 0x814141AB; the name
\* and the documented literal give the same polynomial.
C15_NamesAreReversals ==
  /\ (status.pc = "parsed" /\ IsNameOneCase(PolyText))
       => g_poly = rev32(DocumentedFor(PolyText))
  /\ (status.pc = "parsed" /\ PolyText = <<"7", "4", "1", "b", "8", "c", "d", "7">>)
       => g_poly = REV_POLY_CRC32K

C15_Witness ==
  /\ status.pc = "parsed"
  /\ PolyText = <<"c", "r", "c", "3", "2", "k">>
  /\ g_poly = rev32(Hex(<<7, 4, 1, 11, 8, 12, 13, 7>>))
  /\ g_poly = Hex(<<14, 11, 3, 1, 13, 8, 2, 14>>)

(***************************************************************************)
(* The characters put_fmt appended, and the number they spell.             *)
(***************************************************************************)
Appended ==
  [j \in 1..(sbufs[1].size - call.before.size) |-> sbufs[1].base[call.before.size + j]]

AppendedChars(from, to) == [j \in 1..(to - from + 1) |-> Appended[from + j - 1].c]

\* The number spelled by cs in the base, as the two halves of a uint32_t.
Spelled(cs, base) ==
  Iter(LAMBDA s : [k |-> s.k + 1,
                   hi |-> (s.hi * base) + (((s.lo * base) + hex_digit(cs[s.k])) \div Half),
                   lo |-> ((s.lo * base) + hex_digit(cs[s.k])) % Half],
       [k |-> 1, hi |-> 0, lo |-> 0], Len(cs))

\* cs is x in decimal: digits only, no leading zero, of the value x.
IsDecimalOf(cs, x) ==
  /\ Len(cs) >= 1
  /\ \A j \in 1..Len(cs) : IsDigit(cs[j])
  /\ Len(cs) = 1 \/ cs[1] # "0"
  /\ Spelled(cs, 10).hi = x.hi /\ Spelled(cs, 10).lo = x.lo

\* cs is x as 8 hexadecimal digits in lower case.
IsHexOf(cs, x) ==
  /\ Len(cs) = 8
  /\ \A j \in 1..8 : IsDigit(cs[j]) \/ \E d \in 1..6 : HexLower[d] = cs[j]
  /\ Spelled(cs, 16).hi = x.hi /\ Spelled(cs, 16).lo = x.lo

\* C17: %u appends the decimal representation of its argument and %x its
\* representation in 8 hexadecimal digits, lower case and padded with
\* zeros, for every 32-bit value, those of 9 and 10 decimal digits
\* included; the size of the buffer grows by the number of characters
\* appended, and what the buffer held is left as it was.
C17_FormatsNumbers ==
  (call.fn = "put_fmt" /\ status.pc = "start") =>
    /\ sbufs[1].size >= call.before.size
    /\ SubSeq(sbufs[1].base, 1, call.before.size)
         = SubSeq(call.before.base, 1, call.before.size)
    /\ \A j \in 1..Len(Appended) : Appended[j].k = "char"
    /\ call.fmt = <<"%", "u">> => IsDecimalOf(AppendedChars(1, Len(Appended)), call.args[1])
    /\ call.fmt = <<"%", "x">> => IsHexOf(AppendedChars(1, Len(Appended)), call.args[1])
    /\ call.fmt = <<"k", "%", "u", ";">> =>
         /\ Len(Appended) >= 3
         /\ Appended[1].c = "k" /\ Appended[Len(Appended)].c = ";"
         /\ IsDecimalOf(AppendedChars(2, Len(Appended) - 1), call.args[1])
    /\ call.fmt = <<"0", "x", "%", "x", ",">> =>
         /\ Len(Appended) = 11
         /\ AppendedChars(1, 2) = <<"0", "x">> /\ Appended[11].c = ","
         /\ IsHexOf(AppendedChars(3, 10), call.args[1])

(***************************************************************************)
(* C20: the sizes of a phase with a constant kernel.                       *)
(***************************************************************************)
Planned == call.fn = "emit_main_fn"

\* block_size * kernel_itrs + scalar_tail, as the number it is (64 bits
\* hold it without a cut).
KernelBytes(d) == Add(Mul(d.block_size, d.kernel_itrs, 64), d.scalar_tail, 64)

NaturalWord == U32(scalar_natural_bytes(g_isa))

\* C20: for every accepted phase whose kernel_itrs is not zero after lines
\* 1095-1105, block_size * kernel_itrs + scalar_tail is a multiple of
\* kernel_align (g_vector_bytes when the phase has vector loads, else
\* g_scalar_natural_bytes) and is at most kernel_size, scalar_tail is a
\* multiple of g_scalar_natural_bytes, and line 1097 never subtracts more
\* than kernel_ideal_size.
C20_KernelSizes ==
  Planned /\ ~call.d.trap =>
    /\ ~call.d.borrow
    /\ call.d.kernel_itrs # {} =>
         /\ call.d.kernel_align =
              (IF call.ap.v_load # {} THEN U32(vector_bytes(g_isa)) ELSE NaturalWord)
         /\ Mod(KernelBytes(call.d), call.d.kernel_align, 64) = {}
         /\ ~WordLess(call.ap.kernel_size, KernelBytes(call.d))
         /\ Mod(call.d.scalar_tail, NaturalWord, 32) = {}

\* A phase with vector loads whose tail was enlarged for the alignment, and
\* whose kernel was recomputed for the tail.
C20_Witness ==
  /\ Planned /\ ~call.d.trap
  /\ call.d.kernel_itrs # {}
  /\ call.ap.v_load # {}
  /\ WordLess(NaturalWord, call.d.scalar_tail)

\* A phase without vector loads with a constant kernel and a tail.
C20_WitnessScalar ==
  /\ Planned /\ ~call.d.trap
  /\ call.d.kernel_itrs # {}
  /\ call.ap.v_load = {}
  /\ call.d.scalar_tail = NaturalWord

(***************************************************************************)
(* C16 and C18: main from the command line to the flush.                   *)
(***************************************************************************)
\* parse_args returned: the command line passed every check.
Validated == status.pc \notin {"start", "exit0"} /\ g_algo # <<>>

\* C16: a command line that fails a check ends the program with status 1
\* and nothing emitted or written, and a command line that passed the
\* checks is emitted without a fatal error, up to the flush.
C16_ValidatedIsEmitted ==
  /\ ~Validated /\ status.pc = "exit1" =>
       emitted = NotEmitted /\ helpers = helpers_zero /\ file = <<>>
  /\ Validated => status.pc \in {"parsed", "needs", "emitted", "flushed"}

\* The sizes of phase k of g_algo, for either result of a division by zero.
PhasePlans(k) ==
  {kernel_plan(g_algo[k], U32(vector_bytes(g_isa)), U32(scalar_natural_bytes(g_isa)), zero) :
     zero \in {"trap", "zero"}}

\* Phase k has a kernel that is not constant and more than one scalar
\* accumulator.
ManyScalars(k) ==
  /\ \E d \in PhasePlans(k) : d.kernel_itrs = {}
  /\ WordLess(U32(1), g_algo[k].s_acc)

\* Phase k has a kernel that is not constant and scalar accumulators that
\* are merged: more than one, or at least one beside vector loads.
MergedScalars(k) ==
  /\ has_block(g_algo[k])
  /\ \E d \in PhasePlans(k) : d.kernel_itrs = {}
  /\ \/ WordLess(U32(1), g_algo[k].s_acc)
     \/ g_algo[k].v_load # {} /\ g_algo[k].s_acc # {}

HasShift ==
  Definitions(helpers.g_out, "xnmodp") # {} \/ Definitions(helpers.g_out, "crc_shift") # {}

\* C18 as stated: xnmodp and crc_shift are in the file only if a phase has
\* a kernel that is not constant and more than one scalar accumulator.
C18_Stated ==
  status.pc \in {"emitted", "flushed"} =>
    (HasShift => \E k \in 1..Len(g_algo) : ManyScalars(k))

\* C18: xnmodp and crc_shift are in the file, both and once each, when a
\* phase has a kernel that is not constant and scalar accumulators that are
\* merged (more than one, or at least one beside vector loads), and neither
\* is in the file otherwise.
C18_ShiftWhenMerged ==
  status.pc \in {"emitted", "flushed"} =>
    IF \E k \in 1..Len(g_algo) : MergedScalars(k)
    THEN /\ Cardinality(Definitions(helpers.g_out, "xnmodp")) = 1
         /\ Cardinality(Definitions(helpers.g_out, "crc_shift")) = 1
    ELSE ~HasShift

\* A file with the helpers for one scalar accumulator beside vector loads,
\* and a file without them for three scalar accumulators and a constant
\* kernel.
C18_Witness ==
  /\ status.pc = "flushed"
  /\ HasShift
  /\ \A k \in 1..Len(g_algo) : ~ManyScalars(k)

C18_WitnessNone ==
  /\ status.pc = "flushed"
  /\ ~HasShift
  /\ \E k \in 1..Len(g_algo) :
       WordLess(U32(1), g_algo[k].s_acc) /\ g_algo[k].kernel_size # {}

(***************************************************************************)
(* C19: the tree of folds that collapses the vector accumulators.          *)
(***************************************************************************)
TreeRan == run.kind = "tree"

\* The folds <<distance, target, addend>> of the passes from distance d on,
\* with k registers left: an odd k folds the first pair and goes on with
\* the rest, an even k folds the adjacent pairs.
RECURSIVE PairFolds(_, _)
PairFolds(d, k) ==
  IF k <= 1 THEN <<>>
  ELSE (IF k % 2 = 1 THEN << <<d, 0, d>> >> ELSE <<>>)
       \o [i \in 1..(k \div 2) |-> <<d, (2 * i - 2) * d, (2 * i - 2) * d + d>>]
       \o PairFolds(2 * d, k \div 2)

\* C19: for every number n >= 1 of accumulators the text of
\* emit_vector_tree_reduce is finite and leaves in x0 the chunks 0 .. n-1 in
\* order; at every fold at distance d the addend holds exactly d consecutive
\* chunks that follow those of the target, which was multiplied by the
\* constants for d vectors; there are n - 1 folds, so that every accumulator
\* is folded in once; an odd number of registers folds the first pair and
\* shifts the rest, an even number folds the adjacent pairs.
C19_TreeCollapses ==
  TreeRan =>
    /\ run.s.ok
    /\ run.s.x[0] = Reg([j \in 1..n |-> j - 1], 0)
    /\ Len(run.s.folds) = n - 1
    /\ run.s.folds = PairFolds(1, n)

\* Seven accumulators: an odd pass with its shift at distance 1 and again at
\* distance 2.
C19_Witness ==
  /\ TreeRan /\ n = 7 /\ g_isa = ISA_SSE
  /\ Len(emitted.text) > 0
  /\ run.s.folds[1] = <<1, 0, 1>>
  /\ \E i \in 1..Len(emitted.text) : emitted.text[i].op = "mov"

(***************************************************************************)
(* C13: the output for the command line of the published sample.           *)
(***************************************************************************)
\* The command line ./generate -i neon_eor3 -p crc32 -a v9s3x2e_s3.
SampleCommand ==
  argv = <<Program, Opt("isa", 2), Chars("neon_eor3"), Opt("poly", 2), Chars("crc32"),
           Opt("algo", 2), Chars("v9s3x2e_s3")>>

\* The file of the sample command is written.
SampleWritten == SampleCommand /\ status.pc = "flushed"

\* A text without its white space.
IsSpace(c) == c \in {" ", "\n", "\t", "\r"}
NoSpace(text) == SelectSeq(text, LAMBDA c : ~IsSpace(c))

\* The number of places of a text where the characters of pat stand.
Occurs(text, pat) ==
  Cardinality({i \in 1..(Len(text) - Len(pat) + 1) :
                 \A j \in 1..Len(pat) : text[i + j - 1] = pat[j]})

\* The sample with the line of a number replaced.
SampleWith(k, line) ==
  FlatSeq([i \in 1..Len(sample_lines) |->
             Chars(IF i = k THEN line ELSE sample_lines[i]) \o <<"\n">>])

\* C13: the file written for -i neon_eor3 -p crc32 -a v9s3x2e_s3 holds
\* exactly one definition of clmul_lo, one of clmul_hi and one of xnmodp,
\* and its text is that of the published sample but for white space, the
\* signature of crc_shift included.
C13_SampleReproduced ==
  SampleWritten =>
    /\ Occurs(file, Chars("uint64x2_t clmul_lo(")) = 1
    /\ Occurs(file, Chars("uint64x2_t clmul_hi(")) = 1
    /\ Occurs(file, Chars("uint32_t xnmodp(")) = 1
    /\ NoSpace(file) = NoSpace(sample_file)

\* The definitions are there once each, and the file is the sample byte for
\* byte, white space included, once line 56 of the sample declares nbytes
\* as generate.c:848 does.
C13_OneLineApart ==
  SampleWritten =>
    /\ Occurs(file, Chars("uint64x2_t clmul_lo(")) = 1
    /\ Occurs(file, Chars("uint64x2_t clmul_hi(")) = 1
    /\ Occurs(file, Chars("uint32_t xnmodp(")) = 1
    /\ file = SampleWith(56, "CRC_AINLINE uint64x2_t crc_shift(uint32_t crc, size_t nbytes) {")
    /\ sample_lines[56] = "CRC_AINLINE uint64x2_t crc_shift(uint32_t crc, uint32_t nbytes) {"

C13_Witness == SampleWritten /\ Len(file) > 0

(***************************************************************************)
(* C26, C27 and C28: the state and the output of the indenting writer.     *)
(***************************************************************************)
\* The number of bits set in the uint16_t stack.
StackBits(stack) == Cardinality({k \in 0..15 : (stack \div Pow2(k)) % 2 = 1})

\* The text handed to the writer so far, and the whole of it.
WrittenText == SubSeq(tree[1][1].str, 1, call.arg[2])

\* C26: in write_indenting, after every character the level is the number
\* of bits set in the 16-bit stack of braces, so the level is never above
\* 16 (the 32 spaces of the indent are never read past) and the FATAL of
\* level > 16 never fires: a FATAL "nesting too deep" is that of an open
\* brace met when the top bit of the stack is set.
C26_LevelIsStackBits ==
  /\ call.result.level = StackBits(call.result.stack)
  /\ call.result.level <= 16
  /\ status.fatal # "" => call.result.stack >= 32768

C26_Witness ==
  /\ call.fn = "write_indenting"
  /\ call.result.level = 16 /\ call.result.stack = 65535
  /\ status.fatal = ""

C26_WitnessFatal ==
  /\ status.fatal = "nesting too deep"
  /\ call.result.level = 16 /\ call.result.stack = 65535

\* A line of the first text is the line of the second behind some spaces.
IsIndentOf(a, b) ==
  \E k \in 0..Len(a) : a = [j \in 1..k |-> " "] \o b

\* C27: the indent writer only puts spaces before lines and neither drops
\* nor reorders a character: the flushed file without the spaces put in is
\* the text, also when the text ends right after closing braces that follow
\* a newline.
C27_OnlyIndents ==
  status.pc = "flushed" =>
    /\ Len(TextLines(file).lines) = Len(TextLines(FlushedText).lines)
    /\ TextLines(file).ended = TextLines(FlushedText).ended
    /\ \A j \in 1..Len(TextLines(FlushedText).lines) :
         j <= Len(TextLines(file).lines)
           /\ IsIndentOf(TextLines(file).lines[j], TextLines(FlushedText).lines[j])

\* The closing braces that end the text behind a newline are what is lost.
C27_BracesLost ==
  /\ status.pc = "flushed"
  /\ FlushedText = <<"{", "\n", "a", "\n", "}">>
  /\ file = <<"{", "\n", " ", " ", "a", "\n">>

\* C28 as stated: for every text and every cut of it, the bytes written by
\* the calls for the parts, the state carried from each to the next, are the
\* bytes written by one call for the whole.
C28_Stated ==
  call.fn = "write_indenting" =>
    file = write_indenting(<<>>, WrittenText, indent_state_zero).out

\* C28: when no call ends in a FATAL the bytes written for the parts are the
\* bytes of one call for the whole text, and the state left is the same; the
\* calls for the parts end in a FATAL exactly when the one call does.
C28_SplitFree ==
  call.fn = "write_indenting" =>
    /\ (status.fatal # "") = (write_indenting(<<>>, WrittenText, indent_state_zero).fatal # "")
    /\ status.fatal = "" =>
         /\ file = write_indenting(<<>>, WrittenText, indent_state_zero).out
         /\ call.result = write_indenting(<<>>, WrittenText, indent_state_zero).st

C28_Witness ==
  /\ status.pc = "flushed"
  /\ call.arg = <<5, 9>>
  /\ tree[1][1].str = <<"{", "\n", "{", "\n", "x", "\n", "}", "}", "\n">>
  /\ file = <<"{", "\n", " ", " ", "{", "\n", " ", " ", " ", " ", "x", "\n", "}", "}", "\n">>


(***************************************************************************)
(* C29: accumulators and loads of the phases parse_algo accepts.           *)
(***************************************************************************)
\* The statements of crc32_impl with one of the operations.
Statements(ops) == {i \in 1..Len(emitted.text) : emitted.text[i].op \in ops}

\* C29: every phase parse_algo accepts has v_load > 0 when v_acc > 0 and
\* s_load > 0 when s_acc > 0, so that emit_main_fn may test v_acc and v_load
\* one for the other: no accepted phase declares vector accumulators that
\* are never reduced into crc0.
C29_LoadsWhereAccs ==
  /\ Validated =>
       \A k \in 1..Len(g_algo) :
         /\ g_algo[k].v_acc # {} => g_algo[k].v_load # {}
         /\ g_algo[k].s_acc # {} => g_algo[k].s_load # {}
  /\ status.pc \in {"emitted", "flushed"} =>
       (Statements({"x_decl"}) # {} => Statements({"crc_lane0", "vc_fold"}) # {})

\* The phase v4x0s1x2 under SSE: four accumulators are loaded and folded
\* into x0, and crc0 never takes x0.
C29_NeverReduced ==
  /\ status.pc = "flushed" /\ g_isa = ISA_SSE
  /\ Len(g_algo) = 1
  /\ g_algo[1].v_acc = U32(4) /\ g_algo[1].v_load = {}
  /\ Cardinality(Statements({"x_decl"})) = 4
  /\ Statements({"crc_lane0", "vc_fold"}) = {}


(***************************************************************************)
(* C24: the order of the flushed file.                                     *)
(***************************************************************************)
\* The places of a text where the characters of pat start.
Places(text, pat) ==
  {i \in 1..(Len(text) - Len(pat) + 1) : \A j \in 1..Len(pat) : text[i + j - 1] = pat[j]}

FirstPlace(text, pat) == CHOOSE i \in Places(text, pat) : \A j \in Places(text, pat) : i <= j

\* The name of every helper as it is written where the helper is defined or
\* used, and the words a line starts with where it defines one.
HelperMarks ==
  {"g_crc_table[", "crc_u8(", "crc_u32(", "crc_u64(", "clmul_lo(", "clmul_hi(",
   "clmul_lo_e(", "clmul_hi_e(", "clmul_scalar(", "xnmodp(", "crc_shift("}

DefinitionHeads ==
  {"CRC_AINLINE uint32_t ", "CRC_AINLINE uint64x2_t ", "CRC_AINLINE __m128i ",
   "static uint32_t ", "static const uint32_t ", "#define "}

\* Place i of the text is the name of a definition: a line starts with one of
\* the heads and i follows it.
DefinedAt(text, i) ==
  \E h \in DefinitionHeads :
    /\ i > Len(h)
    /\ SubSeq(text, i - Len(h), i - 1) = Chars(h)
    /\ (i - Len(h) = 1 \/ text[i - Len(h) - 1] = "\n")

MacroBlock == "#if defined(_MSC_VER)"
MainHead == "CRC_EXPORT uint32_t crc32_impl("

\* C24: in the flushed file every #include line stands before the block of
\* macros, every helper is defined before crc32_impl, and every helper is
\* defined before it is used (the table before crc_u8 and crc_u32, crc_u32
\* before crc_u64, clmul_lo before a crc_u32 or crc_u64 that multiplies,
\* clmul_scalar and the scalar helpers before xnmodp, xnmodp before
\* crc_shift), whenever the text was put.
C24_DependencyOrder ==
  status.pc = "flushed" =>
    /\ Cardinality(Places(file, Chars(MacroBlock))) = 1
    /\ Cardinality(Places(file, Chars(MainHead))) = 1
    /\ \A i \in Places(file, Chars("#include <")) : i < FirstPlace(file, Chars(MacroBlock))
    /\ \A m \in HelperMarks :
         Places(file, Chars(m)) # {} =>
           /\ DefinedAt(file, FirstPlace(file, Chars(m)))
           /\ FirstPlace(file, Chars(m)) < FirstPlace(file, Chars(MainHead))

\* The file of the sample: xnmodp is defined behind crc_u32, crc_u64 and
\* clmul_scalar, which it uses, and before crc_shift.
C24_Witness ==
  /\ SampleWritten
  /\ Places(file, Chars("#include <arm_neon.h>")) # {}
  /\ FirstPlace(file, Chars("clmul_scalar(")) < FirstPlace(file, Chars("xnmodp("))
  /\ FirstPlace(file, Chars("xnmodp(")) < FirstPlace(file, Chars("crc_shift("))
  /\ FirstPlace(file, Chars("crc_shift(")) < FirstPlace(file, Chars(MainHead))

\* The file for crc32k under NEON: crc_u64 multiplies by clmul_lo, which is
\* defined before it, and the table stands before crc_u8.
C24_WitnessTable ==
  /\ status.pc = "flushed" /\ g_isa = ISA_NEON /\ g_poly = REV_POLY_CRC32K
  /\ FirstPlace(file, Chars("g_crc_table[")) < FirstPlace(file, Chars("crc_u8("))
  /\ FirstPlace(file, Chars("clmul_lo(")) < FirstPlace(file, Chars("crc_u64("))


(***************************************************************************)
(* C25: the lookup table of the flushed file.                              *)
(***************************************************************************)
TableHead == "static const uint32_t g_crc_table["
TableEnd == "\n}};\n\n"

\* The text at place i of the file is pat.
StandsAt(text, i, pat) ==
  /\ i + Len(pat) - 1 <= Len(text)
  /\ \A j \in 1..Len(pat) : text[i + j - 1] = pat[j]

\* The places of the table's entries: every 0x between the head of the table
\* and its end, and the word written at such a place.
EntryPlaces(text) ==
  {i \in Places(text, Chars("0x")) :
     /\ i > FirstPlace(text, Chars(TableHead))
     /\ i < FirstPlace(text, Chars(TableEnd))}

EntryDigits(text, i) ==
  CHOOSE m \in 1..8 :
    /\ \A k \in 1..m : text[i + 1 + k] \in HexChars
    /\ (m = 8 \/ text[i + 2 + m] \notin HexChars)

EntryWord(text, i) ==
  Hex([k \in 1..EntryDigits(text, i) |-> hex_digit(text[i + 1 + k])])

\* The planes the helpers of the file index the table with.
UsedPlanes(text) ==
  {i \in 0..9 :
     \E p \in Places(text, Chars("g_crc_table[") \o <<Digits[i + 1]>> \o Chars("][")) :
       ~StandsAt(text, p, Chars("g_crc_table[") \o <<Digits[i + 1]>> \o Chars("][256]"))}

\* The helper whose request put the table: the text behind the table's end.
FirstRequester(text) ==
  CHOOSE f \in {"crc_u8", "crc_u32", "none"} :
    \/ StandsAt(text, FirstPlace(text, Chars(TableEnd)) + Len(TableEnd),
                Chars("CRC_AINLINE uint32_t ") \o Chars(f) \o Chars("("))
    \/ /\ f = "none"
       /\ \A g \in {"crc_u8", "crc_u32"} :
            ~StandsAt(text, FirstPlace(text, Chars(TableEnd)) + Len(TableEnd),
                      Chars("CRC_AINLINE uint32_t ") \o Chars(g) \o Chars("("))

\* C25: when a helper asked for the table, the flushed file holds it once,
\* where the first request put it (right before the helper that asked
\* first), declared with N planes, N the largest number asked for; every
\* plane the helpers index is below N, the table has N * 256 entries, and
\* entry j of plane i is j after 8 * (i + 1) single-bit reductions under the
\* polynomial.  When no helper asked, the file does not name the table.
C25_TableAsWidest ==
  status.pc = "flushed" =>
    IF Definitions(helpers.g_out, "g_crc_table") = {}
    THEN Places(file, Chars("g_crc_table")) = {}
    ELSE /\ Cardinality(Places(file, Chars(TableHead))) = 1
         /\ Cardinality(Places(file, Chars("[256] = {"))) = 1
         /\ helpers.g_table_planes \in 1..9
         /\ StandsAt(file, FirstPlace(file, Chars(TableHead)) + Len(TableHead),
                     <<Digits[helpers.g_table_planes + 1]>> \o Chars("][256] = {{\n"))
         /\ FirstRequester(file) \in {"crc_u8", "crc_u32"}
         /\ UsedPlanes(file) # {}
         /\ \A i \in UsedPlanes(file) : i < helpers.g_table_planes
         /\ \E i \in UsedPlanes(file) : i + 1 = helpers.g_table_planes
         /\ LET entries == EntryPlaces(file)
            IN /\ Cardinality(entries) = helpers.g_table_planes * 256
               /\ \A p \in entries :
                    LET k == Cardinality({q \in entries : q < p})
                    IN EntryWord(file, p)
                         = ReduceN(U32(k % 256), g_poly, 8 * ((k \div 256) + 1))

\* Without vector instructions: crc_u8 asks for one plane first, crc_u32 for
\* four afterwards, and the table of four planes stands before crc_u8.
C25_Witness ==
  /\ status.pc = "flushed" /\ g_isa = ISA_NONE
  /\ helpers.g_table_planes = 4
  /\ Places(file, Chars("g_crc_table[4][256] = {")) # {}
  /\ Places(file, Chars("g_crc_table[3][crc & 0xFF]")) # {}
  /\ FirstRequester(file) = "crc_u8"

\* A file whose helpers use instructions only: it has no table.
C25_WitnessAbsent ==
  /\ status.pc = "flushed"
  /\ Definitions(helpers.g_out, "g_crc_table") = {}
  /\ Places(file, Chars("crc32_impl(")) # {}

(***************************************************************************)
(* C22: the merge of the scalar accumulators in the emitted text.          *)
(***************************************************************************)
\* The phases of g_algo that have a kernel, in their order, and the places
\* of the text where the block of such a phase opens.
BlockPhases == SelectSeq([k \in 1..Len(g_algo) |-> k], LAMBDA k : has_block(g_algo[k]))
BlockStarts == Statements({"while_len", "if_len"})

\* The text of the j-th block: from where it opens to where the next opens.
BlockText(j) ==
  LET first == CHOOSE p \in BlockStarts : Cardinality({q \in BlockStarts : q < p}) = j - 1
      later == {p \in BlockStarts : p > first} \cup {Len(emitted.text) + 1}
  IN SubSeq(emitted.text, first, (CHOOSE p \in later : \A q \in later : p <= q) - 1)

\* The statements of a text with one of the operations, and the numbers
\* they are written with.
Of(text, ops) == SelectSeq(text, LAMBDA t : t.op \in ops)
Numbers(text, ops) == [i \in 1..Len(Of(text, ops)) |-> Of(text, ops)[i].a]

\* The bytes of the scalar tail, read from the comment above it.
TailBytes(text) ==
  LET finals == SelectSeq(Of(text, {"/*"}), LAMBDA t : t.e = "/* Final %u bytes. */\n")
  IN IF Len(finals) = 0 THEN 0 ELSE finals[1].a

\* The bytes of the vectors of one iteration when the vectors are read
\* behind the scalar chains (buf2 = buf + klen * s_acc), else 0.
VectorsBehind(text) ==
  LET behind == SelectSeq(Of(text, {"buf2"}), LAMBDA t : t.e[1] = "klen")
      steps == SelectSeq(Of(text, {"ptr_add"}), LAMBDA t : t.e.ptr = "buf2")
  IN IF Len(behind) = 0 THEN 0 ELSE steps[1].e.by[2]

\* klen and blk where the text declares them as constants.
ConstBlk(text) == IF Len(Of(text, {"blk_const"})) = 0 THEN 1 ELSE Of(text, {"blk_const"})[1].a
ConstKlen(text) ==
  IF Len(Of(text, {"klen_const"})) > 0 THEN Of(text, {"klen_const"})[1].a
  ELSE IF Len(Of(text, {"klen_blk"})) > 0 THEN ConstBlk(text) * Of(text, {"klen_blk"})[1].a
  ELSE 0

\* The distance vc{i} is shifted by, as the text of a block with s scalar
\* accumulators lays its input out: the chains behind chain i, each of klen
\* bytes, the vectors when they are read behind the chains, and the tail.
BytesBehind(text, s, i) ==
  IF Len(Of(text, {"klen_const", "blk_const"})) > 0
  THEN shift_const((s - 1 - i) * ConstKlen(text) + TailBytes(text)
                   + ConstBlk(text) * VectorsBehind(text))
  ELSE shift_bytes(IF s - 1 - i = 0 THEN <<"0", 0>> ELSE <<"klen", s - 1 - i>>,
                   TailBytes(text), VectorsBehind(text))

\* The leaves of an expression of emit_vc_xor_tree from left to right.
RECURSIVE TreeLeaves(_)
TreeLeaves(e) ==
  IF e[1] = "vc" THEN <<e[2]>>
  ELSE FlatSeq([i \in 1..(Len(e) - 1) |-> TreeLeaves(e[i + 1])])

\* Every node of the expression is a three-way xor when the ISA has one and
\* the node has three leaves or more, and a two-way xor otherwise.
RECURSIVE TreeNodes(_, _)
TreeNodes(e, ternary) ==
  \/ e[1] = "vc" /\ Len(e) = 2
  \/ /\ e[1] = (IF ternary /\ Len(TreeLeaves(e)) >= 3 THEN "xor3" ELSE "xor")
     /\ Len(e) = (IF e[1] = "xor3" THEN 4 ELSE 3)
     /\ \A i \in 2..Len(e) : TreeNodes(e[i], ternary)

\* The block of phase k (s scalar accumulators) merges as stated.
MergeAsStated(text, s, ternary) ==
  LET last == s - (IF TailBytes(text) # 0 THEN 1 ELSE 0)
  IN IF Len(Of(text, {"vc64_decl"})) = 0
     THEN Len(Of(text, {"vc_decl", "vc_set", "vc_tree", "vc_zero"})) = 0
     ELSE /\ Numbers(text, {"vc_decl"}) = [i \in 1..last |-> i - 1]
          /\ Numbers(text, {"vc_set"}) = [i \in 1..last |-> i - 1]
          /\ \A i \in 1..last : Of(text, {"vc_set"})[i].e = BytesBehind(text, s, i - 1)
          /\ \A i \in 1..Len(text) :
               text[i].op = "crc_mem" => text[i].e.klen = emit_product("klen", text[i].a)
          /\ Len(Of(text, {"vc_tree", "vc_zero"})) = 1
          /\ IF last = 0 THEN Len(Of(text, {"vc_zero"})) > 0
             ELSE /\ Len(Of(text, {"vc_tree"})) > 0
                  /\ TreeLeaves(Of(text, {"vc_tree"})[1].e) = [i \in 1..last |-> i - 1]
                  /\ TreeNodes(Of(text, {"vc_tree"})[1].e, ternary)

\* C22: in every emitted block that merges scalar accumulators, vc{i} is
\* declared and assigned once for each i in 0..s_acc-1 (but the last when a
\* scalar tail follows), it is shifted by the number of input bytes of the
\* phase behind chain i, and the expression of emit_vc_xor_tree names each
\* of them once, by three-way nodes where the ISA has a three-way xor and
\* the node covers at least three, by two-way nodes otherwise; when none is
\* left to merge, vc = 0 is written and emit_vc_xor_tree is not called.
C22_MergeShifts ==
  (status.pc \in {"emitted", "flushed"} /\ emitted.fatal = "") =>
    /\ Cardinality(BlockStarts) = Len(BlockPhases)
    /\ \A j \in 1..Len(BlockPhases) :
         MergeAsStated(BlockText(j), WordNat(g_algo[BlockPhases[j]].s_acc),
                       g_isa \in {ISA_NEON_EOR3, ISA_AVX512, ISA_AVX512_VPCLMULQDQ})

\* Ten chains in front of the vectors under an ISA with a three-way xor: the
\* tree has three-way nodes and its first chain is shifted over nine chains
\* and the vectors.
C22_Witness ==
  /\ status.pc = "emitted" /\ g_isa = ISA_NEON_EOR3
  /\ \E i \in Statements({"vc_tree"}) :
       /\ Len(TreeLeaves(emitted.text[i].e)) = 10
       /\ emitted.text[i].e[1] = "xor3"
  /\ \E i \in Statements({"vc_set"}) :
       /\ emitted.text[i].a = 0
       /\ emitted.text[i].e = shift_bytes(<<"klen", 9>>, 0, 16)

\* Scalars only with a constant kernel: the last chain takes the tail and is
\* not shifted, the others are shifted by constants.
C22_WitnessTail ==
  /\ status.pc = "emitted"
  /\ Statements({"klen_const"}) # {}
  /\ Cardinality(Statements({"vc_set"})) = 2
  /\ Cardinality(Statements({"crc_decl"})) = 2

(***************************************************************************)
(* C30: the arithmetic of emit_main_fn on the sizes of a phase.            *)
(***************************************************************************)
\* A number of 64 bits that 32 bits hold.
Fits32(w) == \A i \in w : i < 32

\* k * g_vector_bytes * 8 as the number it is (generate.c:937-938); the
\* exponents are that + 31 and that - 33.
SetKBits(k) == Mul(Mul(k, U32(vector_bytes(g_isa)), 64), U32(8), 64)

\* The amount of generate.c:1244-1245 for the scalar accumulator i of a
\* phase with a constant kernel, computed in numbers of the width.
ShiftAmount(ap, d, i, width) ==
  Add(Mul(Mul(Mul(d.kernel_itrs, Div(ap.s_load, ap.s_acc, 32), width), NaturalWord, width),
          Sub(Sub(ap.s_acc, U32(1), 32), U32(i), 32), width),
      IF d.scalar_tail # {} THEN d.scalar_tail
      ELSE Mul(Mul(d.kernel_itrs, ap.v_load, width), U32(vector_bytes(g_isa)), width),
      width)

\* The accumulators generate.c:1236-1241 shifts, for the small counts of the
\* phases tried.
ShiftedAccs(ap, d) ==
  IF WordLess(U32(1), ap.s_acc) \/ (ap.v_load # {} /\ ap.s_acc # {})
  THEN 0..(WordNat(ap.s_acc) - 1 - (IF d.scalar_tail # {} THEN 1 ELSE 0))
  ELSE {}

\* C30: for every accepted phase with kernel_size below 2^28 that has a
\* kernel, no division or modulo of generate.c:1061-1105 has a zero divisor
\* (block_size, kernel_align, and s_acc where the accumulators are merged),
\* and the exponents passed to xnmodp are computed without a cut to 32 bits:
\* k * g_vector_bytes * 8 + 31 and - 33 for k = v_acc >= 1, and
\* amount * 8 - 33 with amount >= 5 for the constants of the merge.
C30_WellDefined ==
  (Planned /\ WordLess(call.ap.kernel_size, {28})) =>
    /\ ~call.d.trap
    /\ call.d.block_size # {}
    /\ call.d.kernel_align # {}
    /\ call.ap.v_acc # {} =>
         /\ Fits32(Add(SetKBits(call.ap.v_acc), U32(31), 64))
         /\ ~WordLess(SetKBits(call.ap.v_acc), U32(33))
    /\ call.d.kernel_itrs # {} =>
         \A i \in ShiftedAccs(call.ap, call.d) :
           /\ call.ap.s_acc # {}
           /\ ShiftAmount(call.ap, call.d, i, 64) = ShiftAmount(call.ap, call.d, i, 32)
           /\ ~WordLess(ShiftAmount(call.ap, call.d, i, 64), U32(5))
           /\ Fits32(Mul(ShiftAmount(call.ap, call.d, i, 64), U32(8), 64))

\* The phase v1x268435456 under SSE: 2^28 vector loads of 16 bytes make a
\* block_size of 2^32, which is 0 in uint32_t, and line 1067 divides by it.
C30_ZeroBlock ==
  /\ Planned /\ g_isa = ISA_SSE
  /\ call.ap.kernel_size = {} /\ call.ap.v_load = {28}
  /\ call.d.block_size = {}

(***************************************************************************)
(* C23: the xnmodp of the output.                                          *)
(***************************************************************************)
\* C23: for every polynomial and every n, the xnmodp written into the
\* output (n halved to (n >> 1) - 16 while n > 191, n >> 5 times
\* crc_u32(acc, 0), then acc = crc_u64(0, acc * acc << low) for every bit
\* pushed) returns what the xnmodp of the generator returns, which is x^n
\* mod P, crc_u32(acc, 0) being 32 and crc_u64(0, y) 64 single-bit
\* reductions.
C23_EmittedIsOwn ==
  call.fn = "emitted xnmodp" => call.ret = call.own /\ call.ret = ref

\* An n that is halved more than once and unwound again.
C23_Witness ==
  /\ call.fn = "emitted xnmodp"
  /\ call.arg > 2 * (2 * 192 + 32) + 32
  /\ call.ret = ref

\* An n at the threshold, which is not halved: 191 = 5 * 32 + 31.
C23_WitnessBelow ==
  /\ call.fn = "emitted xnmodp"
  /\ call.arg = 191
  /\ call.ret = ref

(***************************************************************************)
(* C21: the main loop of a phase, by pointer and by length.                *)
(***************************************************************************)
PhaseRan == run.kind = "phase"

\* The phase of the block that ran, and its sizes.
RanPhase == g_algo[BlockPhases[run.block]]
RanPlan == phase_plan(RanPhase, vector_bytes(g_isa), scalar_natural_bytes(g_isa), "zero")

\* The blocks the phase takes from n bytes: kernel_itrs for a constant
\* kernel, else as many as fit in front of the tail.
RanBlocks ==
  IF RanPlan.kernel_itrs # 0 THEN RanPlan.kernel_itrs
  ELSE (n - RanPlan.scalar_tail) \div RanPlan.block_size

RanBytes == RanBlocks * RanPlan.block_size + RanPlan.scalar_tail

\* The block is entered: n bytes are enough for it.
Entered ==
  IF RanPlan.kernel_itrs # 0 THEN n >= RanBytes
  ELSE n >= RanPlan.block_size + RanPlan.scalar_tail

\* The reads of a run cover the bytes 0..bytes-1 once each.
Tiles(reads, bytes) ==
  /\ \A i \in 1..Len(reads) : reads[i].at >= 0 /\ reads[i].at + reads[i].size <= bytes
  /\ \A b \in 0..(bytes - 1) :
       Cardinality({i \in 1..Len(reads) :
                      reads[i].at <= b /\ b < reads[i].at + reads[i].size}) = 1

\* One run of the block is as stated.
RunAsStated(r) ==
  IF ~Entered THEN r.st = "skipped" /\ r.iters = 0 /\ r.buf = 0 /\ r.len = n
  ELSE /\ r.st = "left"
       /\ r.iters = RanBlocks - (IF RanPhase.v_load # {} THEN 1 ELSE 0)
       /\ r.do => r.iters >= 1
       /\ r.buf = RanBytes
       /\ r.len = n - RanBytes
       /\ Tiles(r.reads, RanBytes)

\* C21: for every accepted phase and every length, the block emitted with
\* the loop that ends by pointer and the block emitted with the loop that
\* ends by length run the main loop the same number of times, the number of
\* blocks less the one chunk in front of the loop when the phase has
\* vectors; a do-while is only emitted where that number is not zero; and
\* on leaving the block buf has advanced by the bytes taken off len,
\* blocks * block_size + scalar_tail, which the loads of the scalar chains
\* and of the vectors read once each.
C21_LoopsAgree ==
  PhaseRan =>
    /\ run.own.iters = run.twin.iters
    /\ RunAsStated(run.own)
    /\ RunAsStated(run.twin)

\* The same for the phases whose accumulators all have loads.
C21_LoopsAgreeLoaded ==
  (PhaseRan /\ (RanPhase.v_acc # {} => RanPhase.v_load # {})
            /\ (RanPhase.s_acc # {} => RanPhase.s_load # {})) =>
    /\ run.own.iters = run.twin.iters
    /\ RunAsStated(run.own)
    /\ RunAsStated(run.twin)

\* Vectors behind two scalar chains, three blocks taken.
C21_Witness ==
  /\ PhaseRan /\ RanPhase.v_load # {} /\ RanPhase.s_acc = {1}
  /\ run.own.st = "left" /\ run.twin.st = "left"
  /\ run.own.iters = 2 /\ run.twin.iters = 2
  /\ run.own.buf = 3 * RanPlan.block_size

\* The phase v4x0s1x2: four vector accumulators without loads.
C21_WitnessUnloaded ==
  /\ PhaseRan /\ RanPhase.v_acc # {} /\ RanPhase.v_load = {}
  /\ run.own.st # "left"

(***************************************************************************)
(* C1, C2, C3: the contract of the emitted crc32_impl.                     *)
(***************************************************************************)
Called == run.kind = "call"

\* The reference of bench.c:236-249 over the first n bytes.
Reference == crc_ref(GivenCrc, 0, n, n)

\* Every accumulator of every phase has loads.
AllLoaded ==
  \A k \in 1..Len(g_algo) :
    /\ g_algo[k].v_acc # {} => g_algo[k].v_load # {}
    /\ g_algo[k].s_acc # {} => g_algo[k].s_load # {}

\* C1: for every accepted configuration, every alignment of buf and every
\* len, crc32_impl(crc, buf, len) returns the reflected CRC of the len bytes,
\* started from ~crc and complemented at the end, and has read every byte
\* once.
C1_ImplIsReference ==
  Called =>
    /\ run.whole.st = "ret"
    /\ run.whole.ret = Reference
    /\ run.whole.rd = n

\* The same where every accumulator has loads and the bits that
\* _mm512_castsi128_si512 leaves undefined are zero.
C1_ImplIsReferenceLoaded ==
  (Called /\ AllLoaded /\ run.upper = "zero") =>
    /\ run.whole.st = "ret"
    /\ run.whole.ret = Reference
    /\ run.whole.rd = n

C1_Witness ==
  /\ Called /\ AllLoaded /\ run.a0 = 13 /\ n > 150
  /\ \E k \in 1..Len(g_algo) : g_algo[k].v_acc # {} /\ g_algo[k].s_acc # {}
  /\ run.whole.st = "ret" /\ run.whole.ret = Reference

\* C2: crc32_impl(crc32_impl(c, buf, i), buf + i, n - i) is
\* crc32_impl(c, buf, n) for every accepted configuration, every c, every
\* buffer and every i in 0..n.
C2_SplitIsWhole ==
  Called =>
    /\ run.first.st = "ret" /\ run.second.st = "ret" /\ run.whole.st = "ret"
    /\ run.second.ret = run.whole.ret

C2_SplitIsWholeLoaded ==
  (Called /\ AllLoaded /\ run.upper = "zero") =>
    /\ run.first.st = "ret" /\ run.second.st = "ret" /\ run.whole.st = "ret"
    /\ run.second.ret = run.whole.ret

C2_Witness ==
  /\ Called /\ AllLoaded /\ n > 150 /\ run.split % 8 = 3 /\ run.split > 100
  /\ \E k \in 1..Len(g_algo) : g_algo[k].v_acc # {}
  /\ run.second.st = "ret" /\ run.second.ret = run.whole.ret

\* C3: with len = 0 crc32_impl returns crc as it was given and reads no
\* byte; with len = 1 it reads one byte; whatever the alignment of buf.
C3_ShortLengths ==
  Called =>
    /\ n = 0 => run.whole.st = "ret" /\ run.whole.ret = GivenCrc /\ run.whole.rd = 0
    /\ n = 1 => run.whole.st = "ret" /\ run.whole.rd = 1
    /\ run.split = 0 => run.first.st = "ret" /\ run.first.ret = GivenCrc /\ run.first.rd = 0
    /\ run.split = n => run.second.st = "ret" /\ run.second.ret = run.first.ret
                         /\ run.second.rd = 0
    /\ run.split = 1 => run.first.st = "ret" /\ run.first.rd = 1
    /\ run.split = n - 1 => run.second.st = "ret" /\ run.second.rd = 1

C3_Witness ==
  /\ Called /\ n = 0 /\ run.a0 = 13
  /\ \E k \in 1..Len(g_algo) : g_algo[k].v_acc # {}
  /\ run.whole.st = "ret" /\ run.whole.ret = GivenCrc /\ run.whole.rd = 0

C3_WitnessOne ==
  /\ Called /\ n = 1 /\ run.a0 = 13 /\ run.whole.st = "ret" /\ run.whole.rd = 1


====
